---- MODULE Spec2Model ----
(***************************************************************************)
(* Product-content generation of the marketing agent:                      *)
(*   agents/product_description_generator.py  ProductDescriptionGenerator  *)
(*   tools/excel_product_handler.py           ExcelProductHandler          *)
(*   tools/style_guide_manager.py             StyleGuideManager            *)
(*                                                                         *)
(* Representation of Python values                                         *)
(*   - a product code / stock number is a sequence of one-character        *)
(*     strings, so that prefix matching and splitting are computed;        *)
(*   - a title is a sequence of words (title.split()), its text is the     *)
(*     words joined by one space;                                          *)
(*   - a description is either the float NaN that pandas gives an empty    *)
(*     CSV cell, or a text given by its parts between full stops           *)
(*     (desc.split('.')), each part a number of leading spaces and words;  *)
(*   - a dict is a function on its keys; an ordered dict that is iterated  *)
(*     is a sequence of <<key, value>> pairs;                              *)
(*   - confidences are integers in hundredths (0.3 is 30).                 *)
(***************************************************************************)
EXTENDS Integers, Sequences, FiniteSets, TLC

VARIABLES
    excel_handler,        \* generator.excel_handler is configured (TRUE) or None (FALSE)
    style_guide_manager,  \* generator.style_guide_manager: [available, style_guide]
    style_guide_file,     \* what data/style_guide.json holds
    session_manager,      \* st.session_state.style_guide_manager, the dashboard's instance
    memory,               \* MemorySystem: what its four JSON files hold, and the ids given out
    product_data,         \* handler.product_data: [loaded, rows]
    manufacturer_cache,   \* handler.manufacturer_cache: cache_key -> manufacturer_info
    pc,                   \* "idle": no call in progress; "done": a call has returned or raised
    call,                 \* the operation last invoked and its arguments
    result,               \* what that call gave its caller: a return value or an exception
    requests,             \* outbound HTTP requests issued by that call, in order
    analysis,             \* what that call analysed and researched on its way
    returned,             \* history: <<url, product_name>> -> result of the last lookup of that pair
    similar_count,        \* confidence helpers' input: number of similar products
    title_state,          \* confidence helpers' input: state of title_patterns
    desc_state,           \* confidence helpers' input: state of description_patterns
    spec_state,           \* confidence helpers' input: state of technical_spec_patterns
    confidence,           \* last value of _calculate_confidence, -1 before the first call
    style_confidence      \* last value of _calculate_style_confidence, -1 before the first call

vars == <<excel_handler, style_guide_manager, style_guide_file, session_manager, memory,
          product_data,
          manufacturer_cache, pc, call, result, requests, analysis, returned, similar_count,
          title_state, desc_state, spec_state, confidence, style_confidence>>

genVars == <<excel_handler, style_guide_manager, style_guide_file, session_manager, memory,
             product_data,
             manufacturer_cache, pc, call, result, requests, analysis, returned>>

confVars == <<similar_count, title_state, desc_state, spec_state, confidence, style_confidence>>

-----------------------------------------------------------------------------
(* Generic helpers for Python strings, lists and dicts *)

Min(a, b) == IF a <= b THEN a ELSE b

RECURSIVE Join(_, _)
\* sep.join(words)
Join(words, sep) ==
    IF words = <<>> THEN ""
    ELSE IF Len(words) = 1 THEN words[1]
    ELSE words[1] \o sep \o Join(Tail(words), sep)

RECURSIVE SumLen(_)
SumLen(words) == IF words = <<>> THEN 0 ELSE Len(words[1]) + SumLen(Tail(words))

\* len(' '.join(words))
JoinedLen(words) == IF words = <<>> THEN 0 ELSE SumLen(words) + Len(words) - 1

\* seq[:n]
Take(seq, n) == SubSeq(seq, 1, Min(n, Len(seq)))

RECURSIVE Flatten(_)
Flatten(seqs) == IF seqs = <<>> THEN <<>> ELSE seqs[1] \o Flatten(Tail(seqs))

\* seq.count(x)
Count(x, seq) == Cardinality({i \in 1..Len(seq) : seq[i] = x})

\* the keys of a dict filled by iterating seq, in insertion order
FirstSeen(seq) ==
    LET first == SelectSeq([i \in 1..Len(seq) |-> i],
                           LAMBDA i : \A j \in 1..(i - 1) : seq[j] # seq[i])
    IN [k \in 1..Len(first) |-> seq[first[k]]]

RECURSIVE ByCountFrom(_, _)
\* the <<key, count>> pairs with count c, then those with smaller counts
ByCountFrom(pairs, c) ==
    IF c = 0 THEN <<>>
    ELSE SelectSeq(pairs, LAMBDA kv : kv[2] = c) \o ByCountFrom(pairs, c - 1)

\* [k for k, n in sorted(counts.items(), key=lambda x: x[1], reverse=True)]
\* (Python's sort is stable: equal counts keep first-seen order)
SortedByCount(all) ==
    LET keys == FirstSeen(all)
        pairs == [i \in 1..Len(keys) |-> <<keys[i], Count(keys[i], all)>>]
        most == IF pairs = <<>> THEN 0
                ELSE CHOOSE c \in {pairs[i][2] : i \in 1..Len(pairs)} :
                         \A i \in 1..Len(pairs) : pairs[i][2] <= c
        sorted == ByCountFrom(pairs, most)
    IN [i \in 1..Len(sorted) |-> sorted[i][1]]

\* d.get(k, default)
Get(d, k, default) == IF k \in DOMAIN d THEN d[k] ELSE default

EmptyDict == [k \in {} |-> ""]

\* bool(d) for a dict
DictTruthy(d) == DOMAIN d # {}

-----------------------------------------------------------------------------
(* Product codes and the code-prefix -> category tables *)

Digits == {"0", "1", "2", "3", "4", "5", "6", "7", "8", "9"}

\* str.upper() on one character, for the letters that occur in the modelled codes
UpperChar(c) ==
    CASE c = "g" -> "G"
      [] c = "e" -> "E"
      [] c = "n" -> "N"
      [] OTHER -> c

\* product_code.upper()
UpperCode(code) == [i \in 1..Len(code) |-> UpperChar(code[i])]

\* the text of a code
CodeText(code) == Join(code, "")

RECURSIVE LastSlash(_)
\* index of the last "/" of the code, 0 when there is none
LastSlash(code) ==
    IF code = <<>> THEN 0
    ELSE IF code[Len(code)] = "/" THEN Len(code)
    ELSE LastSlash(SubSeq(code, 1, Len(code) - 1))

\* product_code.split('/')[-1] if '/' in product_code else product_code
ProductIdentifier(code) == CodeText(SubSeq(code, LastSlash(code) + 1, Len(code)))

\* category_mapping of ExcelProductHandler (25 entries)
category_mapping ==
    [p \in {"01", "02", "03", "04", "05", "06", "07", "08", "09", "10", "11", "12", "13",
            "14", "15", "16", "17", "18", "19", "20", "21", "22", "23", "24", "25"} |->
        CASE p = "01" -> "Access Equipment"
          [] p = "02" -> "Air Compressors & Tools"
          [] p = "03" -> "Breaking & Drilling"
          [] p = "04" -> "Cleaning Equipment"
          [] p = "05" -> "Compaction Equipment"
          [] p = "06" -> "Concrete Equipment"
          [] p = "07" -> "Cutting & Grinding"
          [] p = "08" -> "Dehumidifiers"
          [] p = "09" -> "Electrical Equipment"
          [] p = "10" -> "Fans & Ventilation"
          [] p = "11" -> "Floor Care"
          [] p = "12" -> "Garden Equipment"
          [] p = "13" -> "Generators"
          [] p = "14" -> "Hand Tools"
          [] p = "15" -> "Heating"
          [] p = "16" -> "Lifting Equipment"
          [] p = "17" -> "Lighting"
          [] p = "18" -> "Power Tools"
          [] p = "19" -> "Pumps"
          [] p = "20" -> "Safety Equipment"
          [] p = "21" -> "Site Equipment"
          [] p = "22" -> "Temporary Structures"
          [] p = "23" -> "Testing Equipment"
          [] p = "24" -> "Waste Management"
          [] OTHER -> "Welding Equipment"]

\* re.match(r'^(\d{2})/', product_code)
PrefixMatches(code) ==
    /\ Len(code) >= 3
    /\ code[1] \in Digits
    /\ code[2] \in Digits
    /\ code[3] = "/"

\* analyze_product_code with a prefix pattern that matches no code: every code gets
\* the default category
analyze_product_code_unmatched(code) ==
    [prefix |-> "None",
     category |-> "Unknown",
     full_code |-> CodeText(code),
     product_identifier |-> CodeText(code)]

\* ExcelProductHandler.analyze_product_code
analyze_product_code(code) ==
    IF PrefixMatches(code)
    THEN [prefix |-> code[1] \o code[2],
          category |-> Get(category_mapping, code[1] \o code[2], "Unknown"),
          full_code |-> CodeText(code),
          product_identifier |-> ProductIdentifier(code)]
    ELSE [prefix |-> "None",
          category |-> "Unknown",
          full_code |-> CodeText(code),
          product_identifier |-> CodeText(code)]

\* ProductDescriptionGenerator._mock_code_analysis: the class body defines the method
\* twice and the later definition is the one bound, whatever the code
mock_code_analysis(code) ==
    [prefix |-> "01",
     category |-> "Access Equipment",
     full_code |-> CodeText(code),
     product_identifier |-> ProductIdentifier(code)]

\* str.lower() on the category names and words that the model lower-cases
Lower(w) ==
    CASE w = "Access Equipment" -> "access equipment"
      [] w = "Breaking & Drilling" -> "breaking & drilling"
      [] w = "Garden Equipment" -> "garden equipment"
      [] w = "Generators" -> "generators"
      [] w = "Equipment" -> "equipment"
      [] w = "Unknown" -> "unknown"
      [] w = "Honda" -> "honda"
      [] w = "Hyundai" -> "hyundai"
      [] w = "Makita" -> "makita"
      [] w = "Hilti" -> "hilti"
      [] w = "Bosch" -> "bosch"
      [] w = "Stihl" -> "stihl"
      [] w = "DeWalt" -> "dewalt"
      [] w = "Professional" -> "professional"
      [] w = "Generator" -> "generator"
      [] w = "Petrol" -> "petrol"
      [] w = "Electric" -> "electric"
      [] w = "Super" -> "super"
      [] w = "Silent" -> "silent"
      [] w = "Inverter" -> "inverter"
      [] w = "Rotary" -> "rotary"
      [] w = "Hammer" -> "hammer"
      [] w = "Drill" -> "drill"
      [] w = "Breaking" -> "breaking"
      [] w = "SDS" -> "sds"
      [] w = "Max" -> "max"
      [] w = "Plus" -> "plus"
      [] w = "Lawnmower" -> "lawnmower"
      [] w = "Lawn" -> "lawn"
      [] w = "Mower" -> "mower"
      [] w = "Self" -> "self"
      [] w = "Propelled" -> "propelled"
      [] w = "Access" -> "access"
      [] w = "Platform" -> "platform"
      [] w = "Chainsaw" -> "chainsaw"
      [] w = "HR194" -> "hr194"
      [] w = "HRG466" -> "hrg466"
      [] w = "EU20i" -> "eu20i"
      [] w = "EU30i" -> "eu30i"
      [] w = "HY2000si" -> "hy2000si"
      [] w = "HR2470" -> "hr2470"
      [] w = "MS250" -> "ms250"
      [] w = "TE" -> "te"
      [] w = "2000-AVR" -> "2000-avr"
      [] w = "The" -> "the"
      [] w = "Quiet" -> "quiet"
      [] w = "Supplied" -> "supplied"
      [] w = "Site" -> "site"
      [] w = "A" -> "a"
      [] w = "Hire" -> "hire"
      [] w = "Avoid" -> "avoid"
      [] w = "Prefer" -> "prefer"
      [] w = "London" -> "london"
      [] OTHER -> w

\* categories of the prefix table that contain the word "Equipment"
EquipmentCategories ==
    {"Access Equipment", "Cleaning Equipment", "Compaction Equipment", "Concrete Equipment",
     "Electrical Equipment", "Garden Equipment", "Lifting Equipment", "Safety Equipment",
     "Site Equipment", "Testing Equipment", "Welding Equipment", "Equipment"}

\* Series.str.contains(category, case=False, na=False) on one category cell, for the
\* category names the catalog holds: a name contains itself, every "... Equipment"
\* name contains "Equipment", and every name contains the empty string
CategoryContains(cell, category) ==
    \/ category = ""
    \/ Lower(cell) = Lower(category)
    \/ Lower(category) = "equipment" /\ cell \in EquipmentCategories

-----------------------------------------------------------------------------
(* Catalog rows *)

\* a description cell that holds text: its parts between full stops
Text(parts) == [type |-> "str", parts |-> parts]

\* a description cell that pandas read as the float NaN (an empty CSV cell)
NaN == [type |-> "float", parts |-> <<>>]

\* len(part) for one part of a text
PartLen(part) == part.lead + JoinedLen(part.words)

RECURSIVE PartsLen(_)
PartsLen(parts) == IF parts = <<>> THEN 0 ELSE PartLen(parts[1]) + PartsLen(Tail(parts))

\* len(text): the parts and the full stops between them
TextLen(d) == PartsLen(d.parts) + Len(d.parts) - 1

\* len(text.strip()): leading spaces of the first part and the spaces of a wordless
\* last part are trimmed
StrippedLen(d) ==
    LET first == d.parts[1]
        last == d.parts[Len(d.parts)]
    IN IF Len(d.parts) = 1 /\ first.words = <<>> THEN 0
       ELSE TextLen(d) - first.lead - (IF last.words = <<>> THEN last.lead ELSE 0)

\* bool(value) for a description cell: NaN is a non-zero float
Truthy(d) == IF d.type = "str" THEN TextLen(d) > 0 ELSE TRUE

\* isinstance(value, str)
IsStr(d) == d.type = "str"

\* ExcelProductHandler._extract_category_from_sku
extract_category_from_sku(sku) ==
    IF Len(sku) >= 3 /\ sku[1] \in Digits /\ sku[2] \in Digits /\ sku[3] \in {"/", "-"}
    THEN Get(category_mapping, sku[1] \o sku[2], "Equipment")
    ELSE "Equipment"

\* ExcelProductHandler._create_sample_product_data: the rows used when no CSV file is found
SampleRow1 ==
    [stock_number |-> <<"0", "1", "/", "T", "E", "S", "T", "0", "0", "1">>,
     title |-> <<"Honda", "HR194", "Petrol", "Rotary", "Lawnmower", "-", "Self", "Propelled">>,
     description |-> Text(<<[lead |-> 0, words |-> <<"The", "Honda", "HR194", "is", "engineered", "for", "professional", "lawn", "care">>],
              [lead |-> 0, words |-> <<>>],
              [lead |-> 0, words |-> <<>>],
              [lead |-> 0, words |-> <<>>]>>),
     brand |-> "Honda",
     model |-> "HR194",
     category |-> "Garden Equipment",
     manufacturer_website |-> "https://www.honda.co.uk",
     power_type |-> "Petrol",
     power_output |-> "160cc"]

SampleRow2 ==
    [stock_number |-> <<"0", "1", "/", "T", "E", "S", "T", "0", "0", "2">>,
     title |-> <<"Bosch", "Professional", "Access", "Platform", "-", "Electric">>,
     description |-> Text(<<[lead |-> 0, words |-> <<"Professional", "access", "platform", "delivering", "safe", "working", "at", "height">>],
              [lead |-> 0, words |-> <<>>],
              [lead |-> 0, words |-> <<>>],
              [lead |-> 0, words |-> <<>>]>>),
     brand |-> "Bosch",
     model |-> "Professional",
     category |-> "Access Equipment",
     manufacturer_website |-> "https://www.bosch-professional.com",
     power_type |-> "Electric",
     power_output |-> "240V"]

SampleRow3 ==
    [stock_number |-> <<"0", "3", "/", "D", "R", "I", "L", "L", "0", "0", "1">>,
     title |-> <<"Hilti", "TE", "2000-AVR", "Breaking", "Hammer", "-", "SDS", "Max">>,
     description |-> Text(<<[lead |-> 0, words |-> <<"Heavy-duty", "breaking", "hammer", "for", "demolition", "and", "construction">>],
              [lead |-> 0, words |-> <<>>],
              [lead |-> 0, words |-> <<>>],
              [lead |-> 0, words |-> <<>>]>>),
     brand |-> "Hilti",
     model |-> "TE 2000-AVR",
     category |-> "Breaking & Drilling",
     manufacturer_website |-> "https://www.hilti.co.uk",
     power_type |-> "Electric",
     power_output |-> "1900W"]

SampleRow4 ==
    [stock_number |-> <<"0", "3", "/", "D", "R", "I", "L", "L", "0", "0", "2">>,
     title |-> <<"Makita", "HR2470", "Rotary", "Hammer", "Drill", "-", "SDS", "Plus">>,
     description |-> Text(<<[lead |-> 0, words |-> <<"Versatile", "rotary", "hammer", "drill", "for", "drilling", "and", "chiseling">>],
              [lead |-> 0, words |-> <<>>],
              [lead |-> 0, words |-> <<>>],
              [lead |-> 0, words |-> <<>>]>>),
     brand |-> "Makita",
     model |-> "HR2470",
     category |-> "Breaking & Drilling",
     manufacturer_website |-> "https://www.makita.co.uk",
     power_type |-> "Electric",
     power_output |-> "780W"]

SampleRow5 ==
    [stock_number |-> <<"1", "2", "/", "L", "A", "W", "N", "0", "0", "1">>,
     title |-> <<"Stihl", "MS250", "Chainsaw", "-", "Petrol", "Professional">>,
     description |-> Text(<<[lead |-> 0, words |-> <<"Professional", "chainsaw", "for", "tree", "felling", "and", "maintenance">>],
              [lead |-> 0, words |-> <<>>],
              [lead |-> 0, words |-> <<>>],
              [lead |-> 0, words |-> <<>>]>>),
     brand |-> "Stihl",
     model |-> "MS250",
     category |-> "Garden Equipment",
     manufacturer_website |-> "https://www.stihl.co.uk",
     power_type |-> "Petrol",
     power_output |-> "45.4cc"]

SampleRow6 ==
    [stock_number |-> <<"1", "2", "/", "L", "A", "W", "N", "0", "0", "2">>,
     title |-> <<"Honda", "HRG466", "Lawn", "Mower", "-", "Self", "Propelled", "Petrol">>,
     description |-> Text(<<[lead |-> 0, words |-> <<"Reliable", "self-propelled", "mower", "for", "professional", "results">>],
              [lead |-> 0, words |-> <<>>],
              [lead |-> 0, words |-> <<>>],
              [lead |-> 0, words |-> <<>>]>>),
     brand |-> "Honda",
     model |-> "HRG466",
     category |-> "Garden Equipment",
     manufacturer_website |-> "https://www.honda.co.uk",
     power_type |-> "Petrol",
     power_output |-> "160cc"]

SampleRow7 ==
    [stock_number |-> <<"1", "3", "/", "G", "E", "N", "0", "0", "1">>,
     title |-> <<"Honda", "EU20i", "Generator", "-", "Super", "Silent", "Petrol">>,
     description |-> Text(<<[lead |-> 0, words |-> <<"Super", "silent", "generator", "providing", "clean,", "stable", "power">>],
              [lead |-> 0, words |-> <<>>],
              [lead |-> 0, words |-> <<>>],
              [lead |-> 0, words |-> <<>>]>>),
     brand |-> "Honda",
     model |-> "EU20i",
     category |-> "Generators",
     manufacturer_website |-> "https://www.honda.co.uk",
     power_type |-> "Petrol",
     power_output |-> "2000W"]

SampleRow8 ==
    [stock_number |-> <<"1", "3", "/", "G", "E", "N", "0", "0", "2">>,
     title |-> <<"Hyundai", "HY2000si", "Generator", "-", "Inverter", "Petrol">>,
     description |-> Text(<<[lead |-> 0, words |-> <<"Compact", "inverter", "generator", "perfect", "for", "sensitive", "equipment">>],
              [lead |-> 0, words |-> <<>>],
              [lead |-> 0, words |-> <<>>],
              [lead |-> 0, words |-> <<>>]>>),
     brand |-> "Hyundai",
     model |-> "HY2000si",
     category |-> "Generators",
     manufacturer_website |-> "https://www.hyundai.co.uk",
     power_type |-> "Petrol",
     power_output |-> "2000W"]

create_sample_product_data ==
    <<SampleRow1, SampleRow2, SampleRow3, SampleRow4, SampleRow5, SampleRow6, SampleRow7, SampleRow8>>

\* Rows of a loaded WordPress CSV export after _process_wordpress_csv: the category is
\* derived from the stock number, brand and model from the title, the power type from
\* title and description, an empty description cell is NaN, and the columns the export
\* lacks (manufacturer_website, power_output) are empty strings
CsvRow1 ==
    [stock_number |-> <<"1", "3", "/", "G", "E", "N", "0", "0", "1">>,
     title |-> <<"Honda", "EU20i", "Generator">>,
     description |-> Text(<<[lead |-> 0, words |-> <<"The", "Honda", "EU20i", "is", "a", "quiet", "petrol", "generator", "for", "site", "power">>],
              [lead |-> 1, words |-> <<"Supplied", "with", "fuel">>]>>),
     brand |-> "Honda",
     model |-> "EU20i",
     category |-> extract_category_from_sku(<<"1", "3", "/", "G", "E", "N", "0", "0", "1">>),
     manufacturer_website |-> "",
     power_type |-> "Petrol",
     power_output |-> ""]

CsvRow2 ==
    [stock_number |-> <<"1", "3", "/", "G", "E", "N", "0", "0", "2">>,
     title |-> <<"Hyundai", "HY2000si", "Generator">>,
     description |-> NaN,
     brand |-> "",
     model |-> "",
     category |-> extract_category_from_sku(<<"1", "3", "/", "G", "E", "N", "0", "0", "2">>),
     manufacturer_website |-> "",
     power_type |-> "",
     power_output |-> ""]

CsvRow3 ==
    [stock_number |-> <<"0", "3", "/", "D", "R", "I", "L", "L", "0", "1">>,
     title |-> <<"Makita", "HR2470", "Rotary", "Hammer", "Drill">>,
     description |-> Text(<<[lead |-> 0, words |-> <<"The", "Makita", "HR2470", "is", "an", "electric", "rotary", "hammer", "drill", "for", "masonry">>],
              [lead |-> 1, words |-> <<"Supplied", "with", "case">>]>>),
     brand |-> "Makita",
     model |-> "HR2470",
     category |-> extract_category_from_sku(<<"0", "3", "/", "D", "R", "I", "L", "L", "0", "1">>),
     manufacturer_website |-> "",
     power_type |-> "Electric",
     power_output |-> ""]

CsvRow4 ==
    [stock_number |-> <<"1", "3", "/", "G", "E", "N", "0", "0", "3">>,
     title |-> <<"Honda", "EU30i", "Generator">>,
     description |-> Text(<<[lead |-> 0, words |-> <<"The", "Honda", "EU30i", "is", "a", "quiet", "petrol", "generator", "for", "events">>],
              [lead |-> 1, words |-> <<"Supplied", "with", "fuel">>]>>),
     brand |-> "Honda",
     model |-> "EU30i",
     category |-> extract_category_from_sku(<<"1", "3", "/", "G", "E", "N", "0", "0", "3">>),
     manufacturer_website |-> "",
     power_type |-> "Petrol",
     power_output |-> ""]

CsvRow5 ==
    [stock_number |-> <<"1", "3", "/", "G", "E", "N", "0", "0", "4">>,
     title |-> <<"Generator">>,
     description |-> Text(<<[lead |-> 0, words |-> <<"Generator">>]>>),
     brand |-> "",
     model |-> "",
     category |-> extract_category_from_sku(<<"1", "3", "/", "G", "E", "N", "0", "0", "4">>),
     manufacturer_website |-> "",
     power_type |-> "",
     power_output |-> ""]

CsvRow6 ==
    [stock_number |-> <<"1", "3", "/", "G", "E", "N", "0", "0", "5">>,
     title |-> <<"Site", "Generator">>,
     description |-> Text(<<[lead |-> 0, words |-> <<"A", "site", "generator", "for", "building", "work">>],
              [lead |-> 1, words |-> <<"Supplied", "with", "fuel">>]>>),
     brand |-> "",
     model |-> "",
     category |-> extract_category_from_sku(<<"1", "3", "/", "G", "E", "N", "0", "0", "5">>),
     manufacturer_website |-> "",
     power_type |-> "",
     power_output |-> ""]

CsvRows ==
    <<CsvRow2, CsvRow5, CsvRow1, CsvRow3, CsvRow4, CsvRow6>>

-----------------------------------------------------------------------------
(* ExcelProductHandler: catalog lookup and the Pattern Analyzer *)

\* limit=15 of the get_products_by_category call in generate_product_content
SimilarLimit == 15

\* cap of common_words in _analyze_title_patterns
CommonWordsCap == 15

\* cap of sentence_starters in _analyze_description_patterns
StartersCap == 10

\* ExcelProductHandler._parse_technical_specs on a row whose specification columns are
\* power_type and power_output: the spec columns first, then the standard specs, empty
\* values removed
parse_technical_specs(row) ==
    SelectSeq(<< <<"Power Type", row.power_type>>,
                 <<"Power Output", row.power_output>>,
                 <<"Brand", row.brand>>,
                 <<"Model", row.model>>,
                 <<"Category", row.category>> >>,
              LAMBDA kv : kv[2] # "")

\* the product dict built from a row by get_product_by_code / get_products_by_category
ProductOfRow(row, found) ==
    [stock_number |-> row.stock_number,
     title |-> row.title,
     description |-> row.description,
     technical_specs |-> parse_technical_specs(row),
     brand |-> row.brand,
     model |-> row.model,
     category |-> row.category,
     manufacturer_website |-> row.manufacturer_website,
     power_type |-> row.power_type,
     power_output |-> row.power_output,
     found |-> found]

\* the rows get_product_by_code and get_products_by_category work on: a handler whose
\* product_data is None loads the data first, and with no CSV file that is the sample
LoadedRows(data) == IF data.loaded THEN data.rows ELSE create_sample_product_data

\* ExcelProductHandler.get_product_by_code
get_product_by_code(data, code) ==
    LET matching == SelectSeq(LoadedRows(data),
                              LAMBDA r : UpperCode(r.stock_number) = UpperCode(code))
    IN IF Len(matching) > 0
       THEN ProductOfRow(matching[1], TRUE)
       ELSE [stock_number |-> code,
             title |-> <<>>,
             description |-> Text(<<[lead |-> 0, words |-> <<>>]>>),
             technical_specs |-> <<>>,
             brand |-> "",
             model |-> "",
             category |-> analyze_product_code(code).category,
             manufacturer_website |-> "",
             power_type |-> "",
             power_output |-> "",
             found |-> FALSE]

\* ExcelProductHandler.get_products_by_category
get_products_by_category(data, category, limit) ==
    LET rows == Take(SelectSeq(LoadedRows(data),
                               LAMBDA r : CategoryContains(r.category, category)), limit)
    IN [i \in 1..Len(rows) |-> ProductOfRow(rows[i], TRUE)]

stop_words ==
    {"the", "a", "an", "and", "or", "but", "in", "on", "at", "to", "for", "of", "with", "by", "-"}

\* ExcelProductHandler._analyze_title_patterns
analyze_title_patterns(titles) ==
    IF titles = <<>>
    THEN [common_words |-> <<>>, average_length |-> 0, common_structure |-> <<>>]
    ELSE LET all_words == Flatten([i \in 1..Len(titles) |->
                             [j \in 1..Len(titles[i]) |-> Lower(titles[i][j])]])
             common == SelectSeq(SortedByCount(all_words),
                                 LAMBDA w : /\ Count(w, all_words) > 1
                                            /\ w \notin stop_words
                                            /\ Len(w) > 2)
         IN [common_words |-> Take(common, CommonWordsCap),
             average_length |-> Len(all_words) \div Len(titles),
             common_structure |-> <<>>]

\* the sentence starters one description contributes: of its first 3 parts, stripped,
\* the first 4 words joined, when there are at least 2 words
StartersOf(d) ==
    LET first3 == Take(d.parts, 3)
        kept == SelectSeq(first3, LAMBDA part : Len(Take(part.words, 4)) >= 2)
    IN [i \in 1..Len(kept) |-> Join(Take(kept[i].words, 4), " ")]

\* the filter on description cells: text, longer than 10 characters after trimming
ValidDescription(d) == Truthy(d) /\ IsStr(d) /\ StrippedLen(d) > 10

\* len(d.split()) for a description
WordCount(d) == Len(Flatten([i \in 1..Len(d.parts) |-> d.parts[i].words]))

RECURSIVE SumWordCounts(_)
SumWordCounts(descriptions) ==
    IF descriptions = <<>> THEN 0
    ELSE WordCount(descriptions[1]) + SumWordCounts(Tail(descriptions))

\* ExcelProductHandler._analyze_description_patterns (the handler's, on the descriptions
\* that analyze_style_patterns has filtered)
analyze_description_patterns(descriptions) ==
    LET valid == SelectSeq(descriptions, ValidDescription)
        starters == Flatten([i \in 1..Len(valid) |-> StartersOf(valid[i])])
    IN IF valid = <<>>
       THEN [common_phrases |-> <<>>, sentence_starters |-> <<>>, average_length |-> 0]
       ELSE [common_phrases |-> <<>>,
             sentence_starters |->
                 Take(SelectSeq(SortedByCount(starters),
                                LAMBDA st : Count(st, starters) > 1), StartersCap),
             average_length |-> SumWordCounts(valid) \div Len(valid)]

\* ExcelProductHandler._analyze_technical_patterns
analyze_technical_patterns(tech_specs) ==
    LET fields == Flatten([i \in 1..Len(tech_specs) |->
                      [j \in 1..Len(tech_specs[i]) |-> tech_specs[i][j][1]]])
    IN [common_fields |-> SelectSeq(SortedByCount(fields), LAMBDA f : Count(f, fields) > 1),
        field_frequency |-> [f \in {fields[i] : i \in 1..Len(fields)} |-> Count(f, fields)]]

\* valid_descriptions of analyze_style_patterns: the description cells that reach
\* _analyze_description_patterns
valid_descriptions(products) ==
    LET with_desc == SelectSeq(products, LAMBDA p : Truthy(p.description))
        descriptions == [i \in 1..Len(with_desc) |-> with_desc[i].description]
    IN SelectSeq(descriptions, ValidDescription)

\* ExcelProductHandler.analyze_style_patterns
analyze_style_patterns(products) ==
    IF products = <<>>
    THEN [title_patterns |-> EmptyDict,
          description_patterns |-> EmptyDict,
          technical_spec_patterns |-> EmptyDict,
          manufacturer_patterns |-> EmptyDict,
          avg_description_length |-> 0]
    ELSE LET with_title == SelectSeq(products, LAMBDA p : p.title # <<>>)
             titles == [i \in 1..Len(with_title) |-> with_title[i].title]
             valid == valid_descriptions(products)
             with_specs == SelectSeq(products, LAMBDA p : p.technical_specs # <<>>)
             tech_specs == [i \in 1..Len(with_specs) |-> with_specs[i].technical_specs]
         IN [title_patterns |-> analyze_title_patterns(titles),
             description_patterns |->
                 IF valid # <<>> THEN analyze_description_patterns(valid) ELSE EmptyDict,
             technical_spec_patterns |-> analyze_technical_patterns(tech_specs),
             manufacturer_patterns |->
                 [common_manufacturers |->
                      {products[i].manufacturer_website : i \in 1..Len(products)} \ {""}],
             avg_description_length |->
                 IF valid # <<>> THEN SumWordCounts(valid) \div Len(valid) ELSE 0]

-----------------------------------------------------------------------------
(* Confidence scores, in hundredths *)

\* _calculate_style_confidence with a similar-product share that wraps around instead of
\* saturating
calculate_style_confidence_wrapping(style_patterns, similar_products) ==
    LET from_similar == (Len(similar_products) * 10) % 50
        from_title == IF DictTruthy(Get(style_patterns, "title_patterns", EmptyDict))
                      THEN 30 ELSE 0
        from_desc == IF DictTruthy(Get(style_patterns, "description_patterns", EmptyDict))
                     THEN 30 ELSE 0
    IN Min(from_similar + from_title + from_desc, 100)

\* ProductDescriptionGenerator._calculate_style_confidence: the score that
\* generate_product_content reports for a catalog-matched product
calculate_style_confidence(style_patterns, similar_products) ==
    LET from_similar == IF Len(similar_products) > 0
                        THEN Min(Len(similar_products) * 10, 40) ELSE 0
        from_title == IF DictTruthy(Get(style_patterns, "title_patterns", EmptyDict)) THEN 30 ELSE 0
        from_desc == IF DictTruthy(Get(style_patterns, "description_patterns", EmptyDict)) THEN 30 ELSE 0
    IN Min(from_similar + from_title + from_desc, 100)

\* ProductDescriptionGenerator._calculate_confidence: defined by the class, called by none
\* of its methods
calculate_confidence(similar_products, style_patterns) ==
    LET from_similar == IF Len(similar_products) > 0
                        THEN Min(Len(similar_products) * 10, 40) ELSE 0
        from_title ==
            IF Get(Get(style_patterns, "title_patterns", EmptyDict), "common_words", <<>>) # <<>>
            THEN 10 ELSE 0
        from_desc ==
            IF Get(Get(style_patterns, "description_patterns", EmptyDict), "sentence_starters", <<>>) # <<>>
            THEN 10 ELSE 0
        from_spec ==
            IF Get(Get(style_patterns, "technical_spec_patterns", EmptyDict), "common_fields", <<>>) # <<>>
            THEN 10 ELSE 0
    IN Min(30 + from_similar + from_title + from_desc + from_spec, 100)

-----------------------------------------------------------------------------
(* Fact research: the manufacturer-site lookup and the web search *)

\* what requests.get / raise_for_status / BeautifulSoup can give for a manufacturer page:
\* a page that parses (with or without feature lists and tables), or an exception
ManufacturerOutcomes ==
    {[kind |-> "ok", page |-> "with_features"],
     [kind |-> "ok", page |-> "plain"],
     [kind |-> "error", msg |-> "Read timed out"]}

\* further exceptions of the lookup: an HTTP error status (raise_for_status) and a
\* connection failure
ManufacturerErrors ==
    {[kind |-> "error", msg |-> "Read timed out"],
     [kind |-> "error", msg |-> "404 Client Error"],
     [kind |-> "error", msg |-> "Connection refused"]}

\* no request is issued, so there is no outcome
NoOutcome == [kind |-> "none"]

\* the manufacturer_info dict built from a page that was fetched and parsed
ManufacturerInfoOf(url, page) ==
    [website |-> url,
     company_name |-> IF page = "with_features" THEN "Manufacturer UK" ELSE "",
     product_info |-> EmptyDict,
     features |-> IF page = "with_features"
                  THEN <<"Inverter technology for clean power", "Eco throttle fuel saving">>
                  ELSE <<>>,
     specifications |-> IF page = "with_features"
                        THEN << <<"Rated Output", "1600W">> >> ELSE <<>>,
     images |-> <<>>]

\* cache_key = f"{manufacturer_website}_{product_name}"
CacheKey(url, product_name) == url \o "_" \o product_name

\* scrape_manufacturer_info that stores what it fetched but never reads the cache
scrape_manufacturer_info_uncached(cache, url, product_name, outcome) ==
    LET key == CacheKey(url, product_name)
        fetched == IF outcome.kind = "none" THEN [kind |-> "ok", page |-> "plain"]
                   ELSE outcome
    IN IF url = ""
       THEN [value |-> EmptyDict, cache |-> cache, requests |-> <<>>]
       ELSE IF fetched.kind = "ok"
       THEN LET info == ManufacturerInfoOf(url, fetched.page)
            IN [value |-> info,
                cache |-> [k \in DOMAIN cache \cup {key} |->
                              IF k = key THEN info ELSE cache[k]],
                requests |-> <<[target |-> "manufacturer", what |-> url, response |-> fetched]>>]
       ELSE [value |-> [website |-> url, error |-> fetched.msg],
             cache |-> cache,
             requests |-> <<[target |-> "manufacturer", what |-> url, response |-> fetched]>>]

\* ExcelProductHandler.scrape_manufacturer_info: the value returned, the cache afterwards
\* and the requests issued, for the given outcome of the page fetch
scrape_manufacturer_info(cache, url, product_name, outcome) ==
    LET key == CacheKey(url, product_name)
    IN IF url = ""
       THEN [value |-> EmptyDict, cache |-> cache, requests |-> <<>>]
       ELSE IF key \in DOMAIN cache
       THEN [value |-> cache[key], cache |-> cache, requests |-> <<>>]
       ELSE IF outcome.kind = "ok"
       THEN LET info == ManufacturerInfoOf(url, outcome.page)
            IN [value |-> info,
                cache |-> [k \in DOMAIN cache \cup {key} |->
                              IF k = key THEN info ELSE cache[k]],
                requests |-> <<[target |-> "manufacturer", what |-> url, response |-> outcome]>>]
       ELSE [value |-> [website |-> url, error |-> outcome.msg],
             cache |-> cache,
             requests |-> <<[target |-> "manufacturer", what |-> url, response |-> outcome]>>]

\* the page fetch has an outcome exactly when scrape_manufacturer_info issues a request
ManufacturerOutcomesFor(cache, url, product_name) ==
    IF url = "" \/ CacheKey(url, product_name) \in DOMAIN cache
    THEN {NoOutcome} ELSE ManufacturerOutcomes

\* what requests.get can give for a search: status 200 with a number of result snippets
\* that are long enough and name the brand, another status, or an exception
SearchOutcomes ==
    {[kind |-> "ok", status |-> 200, snippets |-> 2],
     [kind |-> "ok", status |-> 200, snippets |-> 0],
     [kind |-> "ok", status |-> 429, snippets |-> 0],
     [kind |-> "error", msg |-> "Read timed out"]}

\* search_terms[:2] of _search_web_for_product, each as the words joined by spaces
search_terms(product) ==
    << <<product.brand, product.model>>, product.title \o <<"specifications">> >>

\* not search_term.strip(): every word of the term is empty
TermBlank(term) == \A i \in 1..Len(term) : term[i] = ""

SearchOutcomesFor(term) == IF TermBlank(term) THEN {NoOutcome} ELSE SearchOutcomes

\* one iteration of the loop of _search_web_for_product
SearchOnce(term, outcome) ==
    IF TermBlank(term)
    THEN [sources |-> <<>>, requests |-> <<>>]
    ELSE [sources |-> IF outcome.kind = "ok" /\ outcome.status = 200
                      THEN [i \in 1..outcome.snippets |-> [search_term |-> Join(term, " ")]]
                      ELSE <<>>,
          requests |-> <<[target |-> "search", what |-> Join(term, " "),
                         response |-> outcome]>>]

\* _search_web_for_product that repeats a search whose request failed
search_web_for_product_retrying(product, outcome1, outcome2) ==
    LET terms == search_terms(product)
        first == SearchOnce(terms[1], outcome1)
        again == IF outcome1.kind = "error" THEN SearchOnce(terms[1], outcome1)
                 ELSE [sources |-> <<>>, requests |-> <<>>]
        second == SearchOnce(terms[2], outcome2)
    IN [value |-> [sources |-> first.sources \o again.sources \o second.sources,
                   additional_features |-> <<>>,
                   common_uses |-> <<>>,
                   technical_details |-> EmptyDict],
        requests |-> first.requests \o again.requests \o second.requests]

\* ProductDescriptionGenerator._search_web_for_product
search_web_for_product(product, outcome1, outcome2) ==
    LET terms == search_terms(product)
        first == SearchOnce(terms[1], outcome1)
        second == SearchOnce(terms[2], outcome2)
    IN [value |-> [sources |-> first.sources \o second.sources,
                   additional_features |-> <<>>,
                   common_uses |-> <<>>,
                   technical_details |-> EmptyDict],
        requests |-> first.requests \o second.requests]

-----------------------------------------------------------------------------
(* StyleGuideManager: the queries the generator makes *)

\* a style guide as _create_default_style_guide builds it: no avoid words, no
\* content patterns
DefaultStyleGuide ==
    [title_avoid |-> <<>>, tone_avoid |-> <<>>, tone_prefer |-> <<>>,
     category_intros |-> EmptyDict,
     feedback_log |-> <<>>, approved_examples |-> <<>>, rejected_examples |-> <<>>]

\* a style guide loaded from data/style_guide.json with guidance in it
LoadedStyleGuide ==
    [title_avoid |-> <<"Professional">>,
     tone_avoid |-> <<"Quiet">>,
     tone_prefer |-> <<"Site">>,
     category_intros |-> [c \in {"Generators"} |-> "for reliable site power"],
     feedback_log |-> <<>>, approved_examples |-> <<>>, rejected_examples |-> <<>>]

\* StyleGuideManager.get_category_intro
get_category_intro(style_guide, category) ==
    Get(style_guide.category_intros, category, "for professional applications")

\* StyleGuideManager.should_avoid_word
should_avoid_word(style_guide, word) ==
    \E i \in 1..Len(style_guide.tone_avoid) : Lower(word) = Lower(style_guide.tone_avoid[i])

-----------------------------------------------------------------------------
(* StyleGuideManager: the feedback store and its JSON file *)

\* Python values that may be None: None, or a str (its words) or a dict under a type tag
None == [type |-> "NoneType"]
Str(words) == [type |-> "str", value |-> words]

\* json.dump of an optional str: null, or a JSON string
JsonOptional(v) ==
    IF v.type = "NoneType" THEN [json |-> "null"] ELSE [json |-> "string", text |-> v.value]

\* json.load that reads null as an empty str
OfJsonOptional_blank(j) == IF j.json = "null" THEN Str(<<>>) ELSE Str(j.text)

\* json.load of an optional str
OfJsonOptional(j) == IF j.json = "null" THEN None ELSE Str(j.text)

\* json.dump of one entry of feedback_log, approved_examples or rejected_examples: str
\* fields, the optional product_code, and the example of a feedback entry, which is None
\* or {"content": str, "product_code": str or None}
JsonEntry(entry) ==
    [k \in DOMAIN entry |->
        IF k = "example"
        THEN IF entry[k].type = "NoneType" THEN [json |-> "null"]
             ELSE [json |-> "object",
                   members |->
                       [content |-> [json |-> "string", text |-> entry[k].value.content],
                        product_code |-> JsonOptional(entry[k].value.product_code)]]
        ELSE IF k = "product_code" THEN JsonOptional(entry[k])
        ELSE [json |-> "string", text |-> entry[k]]]

\* json.load of one entry
OfJsonEntry(members) ==
    [k \in DOMAIN members |->
        IF k = "example"
        THEN IF members[k].json = "null" THEN None
             ELSE [type |-> "dict",
                   value |-> [content |-> members[k].members.content.text,
                              product_code |->
                                  OfJsonOptional(members[k].members.product_code)]]
        ELSE IF k = "product_code" THEN OfJsonOptional(members[k])
        ELSE members[k].text]

\* json.dump(self.style_guide, f): the document written for a style guide
DumpStyleGuide(guide) ==
    LET JsonStrings(list) == [i \in 1..Len(list) |-> [json |-> "string", text |-> list[i]]]
        JsonEntries(list) == [i \in 1..Len(list) |-> JsonEntry(list[i])]
    IN [title_guidelines |-> [avoid |-> JsonStrings(guide.title_avoid)],
        description_guidelines |->
            [tone |-> [avoid |-> JsonStrings(guide.tone_avoid),
                       prefer |-> JsonStrings(guide.tone_prefer)]],
        content_patterns |->
            IF guide.category_intros = EmptyDict THEN EmptyDict
            ELSE [k \in {"category_intros"} |->
                     [c \in DOMAIN guide.category_intros |->
                         [json |-> "string", text |-> guide.category_intros[c]]]],
        feedback_log |-> JsonEntries(guide.feedback_log),
        approved_examples |-> JsonEntries(guide.approved_examples),
        rejected_examples |-> JsonEntries(guide.rejected_examples)]

\* json.load(f): the style guide read from a document
LoadDocument(document) ==
    LET OfJsonStrings(array) == [i \in 1..Len(array) |-> array[i].text]
        OfJsonEntries(array) == [i \in 1..Len(array) |-> OfJsonEntry(array[i])]
        intros == Get(document.content_patterns, "category_intros", EmptyDict)
    IN [title_avoid |-> OfJsonStrings(document.title_guidelines.avoid),
        tone_avoid |-> OfJsonStrings(document.description_guidelines.tone.avoid),
        tone_prefer |-> OfJsonStrings(document.description_guidelines.tone.prefer),
        category_intros |-> [c \in DOMAIN intros |-> intros[c].text],
        feedback_log |-> OfJsonEntries(document.feedback_log),
        approved_examples |-> OfJsonEntries(document.approved_examples),
        rejected_examples |-> OfJsonEntries(document.rejected_examples)]

\* data/style_guide.json is not there; otherwise the file is [state |-> "document"] with
\* its document, or [state |-> "corrupt"]: text that is no JSON (a write that broke off)
MissingFile == [state |-> "missing"]

\* StyleGuideManager.load_style_guide: the default guide when the file is missing or
\* json.load raises
load_style_guide(file) ==
    IF file.state = "document" THEN LoadDocument(file.document) ELSE DefaultStyleGuide

\* what open(path, 'w') and json.dump can do: succeed, fail before the file is opened
\* (makedirs or open raises), or fail after the file was truncated
WriteOutcomes == {"written", "open failed", "write failed"}

\* StyleGuideManager.save_style_guide, as the last step of a mutating call: the guide and
\* the file afterwards, what is printed, the file write attempted, and the value the call
\* returns; the exception of a failed write is caught and nothing is raised
save_style_guide(guide, file, outcome) ==
    [guide |-> guide,
     file |-> CASE outcome = "written" ->
                       [state |-> "document", document |-> DumpStyleGuide(guide)]
                [] outcome = "open failed" -> file
                [] outcome = "write failed" -> [state |-> "corrupt"],
     printed |-> IF outcome = "written" THEN <<>> ELSE <<"Error saving style guide">>,
     requests |-> <<[target |-> "file", what |-> "data/style_guide.json",
                     response |-> [kind |-> IF outcome = "written" THEN "ok" ELSE "error",
                                   msg |-> outcome]]>>,
     value |-> None]

\* 'avoid' in feedback / 'prefer' in feedback, on the lower-cased words of the feedback
Mentions(feedback, word) == \E i \in 1..Len(feedback) : Lower(feedback[i]) = word

\* _process_feedback that takes the last word of an "avoid" feedback as a word to avoid
process_feedback_learning(guide, feedback_entry) ==
    IF Mentions(feedback_entry.feedback, "avoid")
    THEN [guide EXCEPT !.tone_avoid =
              Append(@, feedback_entry.feedback[Len(feedback_entry.feedback)])]
    ELSE guide

\* StyleGuideManager._process_feedback: every branch is `pass`
process_feedback(guide, feedback_entry) ==
    IF Mentions(feedback_entry.feedback, "avoid")
    THEN IF feedback_entry.content_type = "title" THEN guide
         ELSE IF feedback_entry.content_type \in {"description", "features"} THEN guide
         ELSE guide
    ELSE IF Mentions(feedback_entry.feedback, "prefer") THEN guide
    ELSE guide

\* add_feedback that only keeps the latest feedback entry
add_feedback_latest(guide, file, timestamp, content_type, feedback, example, outcome) ==
    LET feedback_entry == [timestamp |-> timestamp, content_type |-> content_type,
                           feedback |-> feedback, example |-> example]
        appended == [guide EXCEPT !.feedback_log = <<feedback_entry>>]
    IN [save_style_guide(appended, file, outcome) EXCEPT
           !.guide = process_feedback(@, feedback_entry)]

\* StyleGuideManager.add_feedback
add_feedback(guide, file, timestamp, content_type, feedback, example, outcome) ==
    LET feedback_entry == [timestamp |-> timestamp, content_type |-> content_type,
                           feedback |-> feedback, example |-> example]
        appended == [guide EXCEPT !.feedback_log = Append(@, feedback_entry)]
    IN [save_style_guide(appended, file, outcome) EXCEPT
           !.guide = process_feedback(@, feedback_entry)]

\* StyleGuideManager.add_approved_example
add_approved_example(guide, file, timestamp, content_type, content, product_code, outcome) ==
    LET example == [timestamp |-> timestamp, content_type |-> content_type,
                    content |-> content, product_code |-> product_code]
    IN save_style_guide([guide EXCEPT !.approved_examples = Append(@, example)],
                        file, outcome)

\* StyleGuideManager.add_rejected_example
add_rejected_example(guide, file, timestamp, content_type, content, reason, product_code, outcome) ==
    LET example == [timestamp |-> timestamp, content_type |-> content_type,
                    content |-> content, reason |-> reason, product_code |-> product_code]
    IN save_style_guide([guide EXCEPT !.rejected_examples = Append(@, example)],
                        file, outcome)

-----------------------------------------------------------------------------
(* ProductDescriptionGenerator: content for a product found in the catalog *)

\* the outcome of a Python call: a value, or an exception that propagates
Returns(v) == [raised |-> FALSE, value |-> v]
Raises(e) == [raised |-> TRUE, error |-> e]

\* clean_sentence.startswith('<'): the part opens with a markup word
StartsWithMarkup(words) == words # <<>> /\ words[1] \in {"<p>", "<ul>", "<li>", "<strong>"}

\* 'hire' in clean_sentence.lower() or 'london' in clean_sentence.lower(), for the
\* words of the catalog, which hold these only as whole words
NamesHireOrLondon(words) == \E i \in 1..Len(words) : Lower(words[i]) \in {"hire", "london"}

\* the condition on one sentence in the loop of _generate_brief_intro
GoodSentence(manager, words) ==
    /\ JoinedLen(words) > 20
    /\ JoinedLen(words) < 150
    /\ ~StartsWithMarkup(words)
    /\ ~NamesHireOrLondon(words)
    /\ manager.available =>
          ~\E i \in 1..Len(words) : should_avoid_word(manager.style_guide, words[i])

\* str.replace(' ' + phrase, '') on a text held as words
RECURSIVE RemovePhraseFrom(_, _, _)
RemovePhraseFrom(words, phrase, i) ==
    IF i + Len(phrase) - 1 > Len(words) THEN words
    ELSE IF SubSeq(words, i, i + Len(phrase) - 1) = phrase
    THEN RemovePhraseFrom(SubSeq(words, 1, i - 1) \o SubSeq(words, i + Len(phrase), Len(words)),
                          phrase, i)
    ELSE RemovePhraseFrom(words, phrase, i + 1)

RemovePhrase(words, phrase) == RemovePhraseFrom(words, phrase, 2)

\* str.replace(word, '') for a whole word: the spaces around it stay
BlankWord(words, word) == [i \in 1..Len(words) |-> IF words[i] = word THEN "" ELSE words[i]]

RECURSIVE BlankWords(_, _)
BlankWords(words, avoid) ==
    IF avoid = <<>> THEN words ELSE BlankWords(BlankWord(words, avoid[1]), Tail(avoid))

\* str.strip() on a text held as words
RECURSIVE Strip(_)
Strip(words) ==
    IF words = <<>> THEN words
    ELSE IF words[1] = "" THEN Strip(Tail(words))
    ELSE IF words[Len(words)] = "" THEN Strip(SubSeq(words, 1, Len(words) - 1))
    ELSE words

\* ProductDescriptionGenerator._generate_brief_intro
generate_brief_intro(manager, brand, model, title, category, power_type, existing_desc) ==
    LET category_intro == IF manager.available
                          THEN get_category_intro(manager.style_guide, category)
                          ELSE "for professional applications"
        good == IF IsStr(existing_desc)
                THEN SelectSeq(existing_desc.parts, LAMBDA part : GoodSentence(manager, part.words))
                ELSE <<>>
        subject == IF brand # "" /\ model # "" THEN "The " \o brand \o " " \o model
                   ELSE IF title # <<>>
                   THEN "The " \o Join(RemovePhrase(RemovePhrase(title, <<"Hire">>),
                                                    <<"-", "London">>), " ")
                   ELSE "This " \o Lower(category)
        kind == IF power_type # ""
                THEN " is a " \o Lower(power_type) \o " " \o Lower(category)
                ELSE " is a professional " \o Lower(category)
        synthesised == subject \o kind \o " " \o category_intro \o "."
    IN IF ~Truthy(existing_desc) THEN Returns(synthesised)
       ELSE IF ~IsStr(existing_desc)
       THEN Raises("TypeError: object of type 'float' has no len()")
       ELSE IF TextLen(existing_desc) > 50 /\ good # <<>>
       THEN Returns(Join(good[1].words, " ") \o ".")
       ELSE Returns(synthesised)

\* ProductDescriptionGenerator._generate_meta_description
generate_meta_description(product) ==
    IF product.brand # "" /\ product.model # ""
    THEN "Hire " \o product.brand \o " " \o product.model \o " " \o Lower(product.category)
         \o " from The Hireman London. Professional equipment rental with same-day delivery. Expert advice and competitive rates."
    ELSE "Professional " \o Lower(product.category)
         \o " hire from The Hireman London. Same-day delivery, expert advice, and competitive rates for your project needs."

\* ProductDescriptionGenerator._generate_wordpress_title
generate_wordpress_title(manager, product) ==
    LET avoid_phrases == IF manager.available THEN manager.style_guide.title_avoid ELSE <<>>
        without == BlankWords(product.title, avoid_phrases)
        clean == RemovePhrase(RemovePhrase(RemovePhrase(without,
                     <<"-", "Professional", "Hire", "London">>), <<"Hire">>), <<"-", "London">>)
    IN IF product.title # <<>> THEN Join(Strip(clean), " ")
       ELSE IF product.brand # "" /\ product.model # "" THEN product.brand \o " " \o product.model
       ELSE IF product.brand # "" THEN product.brand \o " " \o product.category
       ELSE product.category

\* ProductDescriptionGenerator._generate_wordpress_content with _generate_hireman_description:
\* the opening sentence comes first, and an exception in it ends the generation
generate_wordpress_content(manager, product) ==
    LET opening == generate_brief_intro(manager, product.brand, product.model, product.title,
                                        product.category, product.power_type, product.description)
    IN IF opening.raised THEN opening
       ELSE Returns([description_and_features |-> opening.value,
                     meta_description |-> generate_meta_description(product),
                     suggested_title |-> generate_wordpress_title(manager, product)])

-----------------------------------------------------------------------------
(* ProductDescriptionGenerator: content for a code the catalog does not hold *)

\* ProductDescriptionGenerator._generate_fallback_content
generate_fallback_content(product_code, category_info) ==
    LET category == category_info.category
    IN [product_code |-> CodeText(product_code),
        category |-> category,
        generated_at |-> "now",
        wordpress_content |->
            [description_and_features |->
                 "Professional " \o Lower(category)
                 \o " available for hire from The Hireman London. This equipment offers reliable performance for your project requirements.",
             technical_specifications_html |->
                 "<p>Technical specifications will be provided upon inquiry. Contact our team for detailed product information.</p>",
             meta_description |->
                 "Professional " \o Lower(category)
                 \o " hire from The Hireman London. Same-day delivery and expert advice available.",
             suggested_title |-> "Professional " \o category \o " Hire - The Hireman London",
             key_features_list |-> <<"Professional grade equipment",
                                     "Same-day delivery available",
                                     "Expert technical support",
                                     "Competitive hire rates">>],
        research_sources |-> [similar_products_analyzed |-> 0,
                              manufacturer_website |-> "",
                              web_research_completed |-> 0,
                              style_patterns_found |-> 0],
        style_confidence |-> 20]

\* dict.update on a dict held as ordered <<key, value>> pairs
RECURSIVE DictUpdate(_, _)
DictUpdate(d, pairs) ==
    IF pairs = <<>> THEN d
    ELSE LET kv == pairs[1]
             present == \E i \in 1..Len(d) : d[i][1] = kv[1]
             next == IF present
                     THEN [i \in 1..Len(d) |-> IF d[i][1] = kv[1] THEN kv ELSE d[i]]
                     ELSE Append(d, kv)
         IN DictUpdate(next, Tail(pairs))

\* value if value else default
OrElse(value, default) == IF value # "" THEN value ELSE default

\* the title of _generate_new_product_content
NewProductTitle(brand, model, product_name, differentiator, power_type, power_output) ==
    (IF product_name # "" THEN brand \o " " \o model \o " " \o product_name
     ELSE brand \o " " \o model)
    \o (IF differentiator # "" THEN " - " \o differentiator ELSE "")
    \o (IF power_type # "" THEN " (" \o power_type \o ")" ELSE "")
    \o (IF power_output # "" THEN " " \o power_output ELSE "")

\* the category-specific branch of _generate_new_product_content
NewProductBranch(brand, category) ==
    IF category = "Breaking & Drilling"
    THEN IF Lower(brand) = "dewalt" THEN "dewalt_drilling" ELSE "drilling"
    ELSE IF category = "Garden Equipment" THEN "garden"
    ELSE IF category = "Generators" THEN "generators"
    ELSE "generic"

\* key_features[0] of each branch; the other seven entries are fixed texts
NewProductFirstFeature(branch, brand) ==
    CASE branch = "dewalt_drilling" -> "Professional " \o brand \o " quality and reliability"
      [] branch = "drilling" -> "Professional " \o brand \o " construction"
      [] branch = "garden" -> "Professional " \o brand \o " engineering"
      [] branch = "generators" -> "Reliable " \o brand \o " power generation"
      [] OTHER -> "Professional " \o brand \o " quality"

\* tech_specs of each branch before the common specs are added
NewProductSpecs(branch, brand, model, category, product_type, power_type, power_output) ==
    << <<"Brand", brand>>, <<"Model", model>>, <<"Category", category>> >> \o
    (CASE branch = "dewalt_drilling" ->
              << <<"Drilling Capacity", "Concrete: 40mm, Steel: 13mm">>,
                 <<"Impact Rate", "4,800 bpm">>,
                 <<"Chuck Type", "SDS-Plus Compatible">>,
                 <<"Battery", "High-capacity Lithium-ion">>,
                 <<"Vibration Control", "Advanced Anti-Vibration">>,
                 <<"Applications", "Drilling, Hammer Drilling, Chiselling">> >>
       [] branch = "drilling" ->
              << <<"Applications", "Breaking & Drilling">>,
                 <<"Power Source", OrElse(power_type, "Electric/Cordless")>>,
                 <<"Chuck Type", "Professional Grade">>,
                 <<"Vibration Control", "Enhanced">>,
                 <<"Suitable For", "Concrete, Masonry, Steel">> >>
       [] branch = "garden" ->
              << <<"Engine Type", OrElse(power_type, "4-Stroke/Electric")>>,
                 <<"Power Output", OrElse(power_output, "High Performance")>>,
                 <<"Applications", "Professional Landscaping">>,
                 <<"Cutting System", "Professional Grade">>,
                 <<"Fuel Efficiency", "Optimized">> >>
       [] branch = "generators" ->
              << <<"Power Output", OrElse(power_output, "3-10kVA")>>,
                 <<"Fuel Type", OrElse(power_type, "Petrol/Diesel")>>,
                 <<"Runtime", "8-12 Hours">>,
                 <<"Outlets", "Multiple 230V/110V">>,
                 <<"Applications", "Construction, Events, Backup">> >>
       [] OTHER ->
              << <<"Type", OrElse(product_type, category)>>,
                 <<"Power Source", OrElse(power_type, "Professional Grade")>>,
                 <<"Applications", "Professional/Commercial Use">>,
                 <<"Operation", "User-friendly">> >>)

\* _generate_new_product_content with a confidence that depends on whether a
\* manufacturer website was supplied
generate_new_product_content_by_website(product_code, new_product_info) ==
    LET brand == Get(new_product_info, "brand", "Professional")
        model == Get(new_product_info, "model", "Model")
        manufacturer_website == Get(new_product_info, "manufacturer_website", "")
        category == Get(new_product_info, "category", "Equipment")
    IN [product_code |-> CodeText(product_code),
        category |-> category,
        generated_at |-> "now",
        wordpress_content |-> [suggested_title |-> brand \o " " \o model],
        technical_specs |-> << <<"Brand", brand>>, <<"Model", model>> >>,
        research_sources |-> [similar_products_analyzed |-> 8,
                              manufacturer_website |-> manufacturer_website,
                              web_research_completed |-> 5,
                              style_patterns_found |-> 4],
        style_confidence |-> IF manufacturer_website # "" THEN 80 ELSE 60,
        manufacturer_website |-> manufacturer_website,
        manufacturer_info |-> [company_name |-> brand,
                               analyzed |-> manufacturer_website # ""]]

\* ProductDescriptionGenerator._generate_new_product_content
generate_new_product_content(product_code, new_product_info) ==
    LET brand == Get(new_product_info, "brand", "Professional")
        model == Get(new_product_info, "model", "Model")
        product_name == Get(new_product_info, "name", "")
        product_type == Get(new_product_info, "type", "")
        differentiator == Get(new_product_info, "differentiator", "")
        power_type == Get(new_product_info, "power_type", "")
        power_output == Get(new_product_info, "power", "")
        manufacturer_website == Get(new_product_info, "manufacturer_website", "")
        category == Get(new_product_info, "category", "Equipment")
        title == NewProductTitle(brand, model, product_name, differentiator, power_type,
                                 power_output)
        branch == NewProductBranch(brand, category)
        tech_specs == DictUpdate(NewProductSpecs(branch, brand, model, category, product_type,
                                                 power_type, power_output),
                                 << <<"Product Code", CodeText(product_code)>>,
                                    <<"Hire Period", "Daily, Weekly, Monthly">>,
                                    <<"Delivery", "Same Day Available">>,
                                    <<"Support", "Expert Guidance Included">> >>)
    IN [product_code |-> CodeText(product_code),
        category |-> category,
        generated_at |-> "now",
        wordpress_content |->
            [suggested_title |-> title,
             description_and_features |-> branch,
             meta_description |->
                 title \o " hire from The Hireman London. Professional " \o Lower(category)
                 \o " with same-day delivery. Expert advice and competitive rates.",
             first_key_feature |-> NewProductFirstFeature(branch, brand)],
        technical_specs |-> tech_specs,
        research_sources |-> [similar_products_analyzed |-> 8,
                              manufacturer_website |-> manufacturer_website,
                              web_research_completed |-> 5,
                              style_patterns_found |-> 4],
        style_confidence |-> 80,
        manufacturer_website |-> manufacturer_website,
        manufacturer_info |-> [company_name |-> brand,
                               analyzed |-> manufacturer_website # ""]]

-----------------------------------------------------------------------------
(* ProductDescriptionGenerator.generate_product_content *)

\* bool(new_product_info): None and the empty dict are falsy
InfoTruthy(new_product_info) == new_product_info.supplied /\ DictTruthy(new_product_info.info)

\* nothing was analysed: the call returned before the pattern analysis
NoAnalysis(steps) ==
    [steps |-> steps, similar_products |-> <<>>, valid_descriptions |-> <<>>,
     style_patterns |-> EmptyDict, manufacturer_info |-> EmptyDict,
     web_research |-> EmptyDict]

\* the whole call: its outcome, the handler's product data and cache afterwards, the
\* requests it issued and what it analysed. handler is whether the generator was built
\* with an ExcelProductHandler; m, w1 and w2 are the outcomes of the page fetch and of the
\* two searches
generate_product_content(handler, manager, data, cache, product_code, new_product_info, m, w1, w2) ==
    LET product == get_product_by_code(data, product_code)
        found == handler /\ product.found
        data_after == IF handler THEN [loaded |-> TRUE, rows |-> LoadedRows(data)] ELSE data
        lookup == IF handler THEN <<"get_product_by_code">> ELSE <<>>
    IN IF ~found /\ InfoTruthy(new_product_info)
       THEN [outcome |-> Returns(generate_new_product_content(product_code,
                                                              new_product_info.info)),
             data |-> data_after, cache |-> cache, requests |-> <<>>,
             analysis |-> NoAnalysis(lookup \o <<"_generate_new_product_content">>)]
       ELSE IF ~found
       THEN [outcome |-> Returns(generate_fallback_content(product_code,
                             IF handler THEN analyze_product_code(product_code)
                             ELSE mock_code_analysis(product_code))),
             data |-> data_after, cache |-> cache, requests |-> <<>>,
             analysis |-> NoAnalysis(lookup \o
                              <<IF handler THEN "analyze_product_code" ELSE "_mock_code_analysis",
                                "_generate_fallback_content">>)]
       ELSE LET similar_products == get_products_by_category(data_after, product.category,
                                                             SimilarLimit)
                style_patterns == analyze_style_patterns(similar_products)
                scraped == IF product.manufacturer_website # ""
                           THEN scrape_manufacturer_info(cache, product.manufacturer_website,
                                                         Join(product.title, " "), m)
                           ELSE [value |-> EmptyDict, cache |-> cache, requests |-> <<>>]
                web_research == search_web_for_product(product, w1, w2)
                wordpress_content == generate_wordpress_content(manager, product)
                value == [product_code |-> CodeText(product_code),
                          category |-> product.category,
                          generated_at |-> "now",
                          wordpress_content |-> wordpress_content.value,
                          research_sources |->
                              [similar_products_analyzed |-> Len(similar_products),
                               manufacturer_website |-> product.manufacturer_website,
                               web_research_completed |-> Len(web_research.value.sources),
                               style_patterns_found |->
                                   Cardinality(DOMAIN style_patterns.title_patterns)],
                          style_confidence |->
                              calculate_style_confidence(style_patterns, similar_products)]
            IN [outcome |-> IF wordpress_content.raised THEN wordpress_content
                            ELSE Returns(value),
                data |-> data_after,
                cache |-> scraped.cache,
                requests |-> scraped.requests \o web_research.requests,
                analysis |->
                    [steps |-> <<"get_product_by_code", "get_products_by_category",
                                 "analyze_style_patterns">>
                               \o (IF product.manufacturer_website # ""
                                   THEN <<"scrape_manufacturer_info">> ELSE <<>>)
                               \o <<"_search_web_for_product", "_generate_wordpress_content">>,
                     similar_products |-> similar_products,
                     valid_descriptions |-> valid_descriptions(similar_products),
                     style_patterns |-> style_patterns,
                     manufacturer_info |-> scraped.value,
                     web_research |-> web_research.value]]

-----------------------------------------------------------------------------
(* Inputs of the calls *)

\* product codes a caller asks for: catalog codes (one in lower case), a code whose
\* prefix no table maps, and a code with no prefix; the sample data holds the first and
\* second, a CSV catalog of two rows the second and fourth
ProductCodes ==
    {<<"1", "3", "/", "G", "E", "N", "0", "0", "1">>,
     <<"1", "3", "/", "G", "E", "N", "0", "0", "2">>,
     <<"0", "3", "/", "D", "R", "I", "L", "L", "0", "1">>,
     <<"1", "3", "/", "g", "e", "n", "0", "0", "1">>,
     <<"1", "3", "/", "G", "E", "N", "0", "0", "4">>,
     <<"9", "9", "/", "G", "E", "N">>,
     <<"G", "E", "N", "0", "0", "1">>}

\* new_product_info=None
NoInfo == [supplied |-> FALSE, info |-> EmptyDict]

\* new_product_info as the new-product form fills it: every value is a string
FilledInfos ==
    {[brand |-> "Honda", model |-> "EU22i", name |-> "Generator", type |-> "Inverter",
      differentiator |-> "Super Silent", power_type |-> "Petrol", power |-> "2.2kW",
      category |-> "Generators", manufacturer_website |-> "https://www.honda.co.uk"],
     [brand |-> "DeWalt", model |-> "DCH273", name |-> "", type |-> "", differentiator |-> "",
      power_type |-> "", power |-> "", category |-> "Breaking & Drilling",
      manufacturer_website |-> ""],
     [brand |-> "Makita", model |-> "HR2470", name |-> "Drill", type |-> "",
      differentiator |-> "", power_type |-> "Electric", power |-> "",
      category |-> "Breaking & Drilling", manufacturer_website |-> ""],
     [brand |-> "Stihl", model |-> "MS250", name |-> "Chainsaw", type |-> "",
      differentiator |-> "", power_type |-> "", power |-> "", category |-> "Garden Equipment",
      manufacturer_website |-> ""],
     [brand |-> "", model |-> "", name |-> "", type |-> "", differentiator |-> "",
      power_type |-> "", power |-> "", category |-> "", manufacturer_website |-> ""],
     [name |-> "Platform"]}

NewProductInfos ==
    {NoInfo, [supplied |-> TRUE, info |-> EmptyDict]}
    \cup {[supplied |-> TRUE, info |-> f] : f \in FilledInfos}

\* the catalog after construction: product_data is None when no CSV file was found,
\* else the rows of the file
CatalogRowCounts == {0, 2, 6}

Catalogs ==
    {[loaded |-> FALSE, rows |-> <<>>]}
    \cup {[loaded |-> TRUE, rows |-> SubSeq(CsvRows, 1, n)] : n \in CatalogRowCounts}

\* the style guide manager the generator was built with: None, or one holding a guide
StyleGuideManagers ==
    {[available |-> FALSE, style_guide |-> DefaultStyleGuide],
     [available |-> TRUE, style_guide |-> DefaultStyleGuide],
     [available |-> TRUE, style_guide |-> LoadedStyleGuide]}

-----------------------------------------------------------------------------
(* MemorySystem: four JSON files, each holding one list *)

\* the files as _initialize_memory_files creates them; ids stands for uuid4, which gives
\* a new id at each call
NoMemory ==
    [conversations |-> <<>>, campaigns |-> <<>>, content_history |-> <<>>,
     insights |-> <<>>, ids |-> 0]

ConversationsKept == 1000
ContentKept == 500
InsightsKept == 200

\* entries[-n:]
LastOf(entries, n) ==
    IF Len(entries) > n THEN SubSeq(entries, Len(entries) - n + 1, Len(entries))
    ELSE entries

\* MemorySystem.store_conversation
store_conversation(m, now, user_input, agent_response, context) ==
    LET conversation_entry == [id |-> m.ids + 1, timestamp |-> now,
                               user_input |-> user_input,
                               agent_response |-> agent_response,
                               context |-> context, date |-> SubSeq(now, 1, 10)]
        conversations == Append(m.conversations, conversation_entry)
    IN [value |-> conversation_entry.id,
        memory |-> [m EXCEPT !.conversations = LastOf(conversations, ConversationsKept),
                             !.ids = @ + 1]]

\* MemorySystem.store_campaign
store_campaign(m, now, campaign_data) ==
    LET campaign_entry == [id |-> m.ids + 1, created_at |-> now,
                           campaign_data |-> campaign_data,
                           status |-> Get(campaign_data, "status", "planned"),
                           type |-> Get(campaign_data, "type", "general"),
                           products |-> Get(campaign_data, "products", <<>>),
                           performance |-> <<>>]
    IN [value |-> campaign_entry.id,
        memory |-> [m EXCEPT !.campaigns = Append(@, campaign_entry), !.ids = @ + 1]]

\* MemorySystem.store_generated_content
store_generated_content(m, now, content_type, content, metadata) ==
    LET content_entry == [id |-> m.ids + 1, timestamp |-> now,
                          content_type |-> content_type, content |-> content,
                          metadata |-> metadata, used_count |-> 0, last_used |-> None]
        content_history == Append(m.content_history, content_entry)
    IN [value |-> content_entry.id,
        memory |-> [m EXCEPT !.content_history = LastOf(content_history, ContentKept),
                             !.ids = @ + 1]]

\* MemorySystem.store_insight; the confidence is in hundredths
store_insight(m, now, insight_type, insight_data) ==
    LET insight_entry == [id |-> m.ids + 1, timestamp |-> now, type |-> insight_type,
                          data |-> insight_data,
                          source |-> Get(insight_data, "source", "system"),
                          confidence |-> Get(insight_data, "confidence", 50)]
        insights == Append(m.insights, insight_entry)
    IN [value |-> insight_entry.id,
        memory |-> [m EXCEPT !.insights = LastOf(insights, InsightsKept), !.ids = @ + 1]]

\* the index of the first entry with the id, 0 when there is none
FirstWithId(entries, id) ==
    IF \E i \in 1..Len(entries) : entries[i].id = id
    THEN CHOOSE i \in 1..Len(entries) :
             entries[i].id = id /\ \A j \in 1..(i - 1) : entries[j].id # id
    ELSE 0

\* MemorySystem.update_campaign_performance; the performance dict is held as ordered
\* <<key, value>> pairs
update_campaign_performance(m, now, campaign_id, performance_data) ==
    LET i == FirstWithId(m.campaigns, campaign_id)
    IN [value |-> None,
        memory |->
            IF i = 0 THEN m
            ELSE [m EXCEPT !.campaigns[i] =
                     [k \in DOMAIN @ \cup {"last_updated"} |->
                         IF k = "last_updated" THEN now
                         ELSE IF k = "performance" THEN DictUpdate(@[k], performance_data)
                         ELSE @[k]]]]

\* MemorySystem.mark_content_as_used
mark_content_as_used(m, now, content_id) ==
    LET i == FirstWithId(m.content_history, content_id)
    IN [value |-> None,
        memory |->
            IF i = 0 THEN m
            ELSE [m EXCEPT !.content_history[i].used_count = @ + 1,
                           !.content_history[i].last_used = Str(now)]]

-----------------------------------------------------------------------------
(* The generation pipeline as a state machine *)

NoCall == [op |-> "none"]
NoResult == [status |-> "none"]

\* ProductDescriptionGenerator.__init__ and ExcelProductHandler.__init__
Init ==
    /\ excel_handler \in BOOLEAN
    /\ style_guide_manager \in StyleGuideManagers
    /\ style_guide_file = IF style_guide_manager.style_guide = LoadedStyleGuide
                          THEN [state |-> "document", document |-> DumpStyleGuide(LoadedStyleGuide)]
                          ELSE MissingFile
    /\ session_manager = [available |-> FALSE, style_guide |-> DefaultStyleGuide]
    /\ memory = NoMemory
    /\ product_data \in IF excel_handler THEN Catalogs ELSE {[loaded |-> FALSE, rows |-> <<>>]}
    /\ manufacturer_cache = EmptyDict
    /\ pc = "idle"
    /\ call = NoCall
    /\ result = NoResult
    /\ requests = <<>>
    /\ analysis = NoAnalysis(<<>>)
    /\ returned = EmptyDict
    /\ similar_count = 0
    /\ title_state = "absent"
    /\ desc_state = "absent"
    /\ spec_state = "absent"
    /\ confidence = -1
    /\ style_confidence = -1

\* the outcomes the network can give to one call, given what the call will request
OutcomesOf(product_code) ==
    LET product == get_product_by_code(product_data, product_code)
    IN IF excel_handler /\ product.found
       THEN [m : ManufacturerOutcomesFor(manufacturer_cache, product.manufacturer_website,
                                         Join(product.title, " ")),
             w1 : SearchOutcomesFor(search_terms(product)[1]),
             w2 : SearchOutcomesFor(search_terms(product)[2])]
       ELSE {[m |-> NoOutcome, w1 |-> NoOutcome, w2 |-> NoOutcome]}

\* a caller invokes generate_product_content and the call runs to its end
GenerateProductContent(product_code, new_product_info) ==
    /\ pc = "idle"
    /\ \E o \in OutcomesOf(product_code) :
         \E done \in {generate_product_content(excel_handler, style_guide_manager,
                                               product_data, manufacturer_cache, product_code,
                                               new_product_info, o.m, o.w1, o.w2)} :
            /\ pc' = "done"
            /\ call' = [op |-> "generate_product_content", product_code |-> product_code,
                        new_product_info |-> new_product_info]
            /\ result' = IF done.outcome.raised
                         THEN [status |-> "raised", error |-> done.outcome.error]
                         ELSE [status |-> "returned", value |-> done.outcome.value]
            /\ requests' = done.requests
            /\ analysis' = done.analysis
            /\ product_data' = done.data
            /\ manufacturer_cache' = done.cache
    /\ UNCHANGED <<excel_handler, style_guide_manager, style_guide_file, session_manager, memory, returned>>
    /\ UNCHANGED confVars

\* the caller has taken the result (or caught the exception) and may call again
ReturnToCaller ==
    /\ pc = "done"
    /\ pc' = "idle"
    /\ call' = NoCall
    /\ result' = NoResult
    /\ requests' = <<>>
    /\ analysis' = NoAnalysis(<<>>)
    /\ UNCHANGED <<excel_handler, style_guide_manager, style_guide_file, session_manager, memory,
                   product_data,
                   manufacturer_cache, returned>>
    /\ UNCHANGED confVars

Next ==
    \/ \E product_code \in ProductCodes, new_product_info \in NewProductInfos :
           GenerateProductContent(product_code, new_product_info)
    \/ ReturnToCaller

Spec == Init /\ [][Next]_vars

-----------------------------------------------------------------------------
(* The two confidence helpers on their own *)

\* largest similar-product count the helpers are applied to
MaxSimilar == 16

\* a pattern entry of style_patterns: the key is absent, its dict is empty, its dict
\* is there but the list the helper reads is empty, or the list has entries
PatternStates == {"absent", "empty", "bare", "found"}

TitlePatternsIn(state) ==
    CASE state = "empty" -> EmptyDict
      [] state = "bare" -> [common_words |-> <<>>, average_length |-> 1,
                            common_structure |-> <<>>]
      [] OTHER -> [common_words |-> <<"generator">>, average_length |-> 3,
                   common_structure |-> <<>>]

DescriptionPatternsIn(state) ==
    CASE state = "empty" -> EmptyDict
      [] state = "bare" -> [common_phrases |-> <<>>, sentence_starters |-> <<>>,
                            average_length |-> 9]
      [] OTHER -> [common_phrases |-> <<>>, sentence_starters |-> <<"Supplied with fuel">>,
                   average_length |-> 13]

SpecPatternsIn(state) ==
    CASE state = "empty" -> EmptyDict
      [] state = "bare" -> [common_fields |-> <<>>, field_frequency |-> [f \in {"Brand"} |-> 1]]
      [] OTHER -> [common_fields |-> <<"Brand">>, field_frequency |-> [f \in {"Brand"} |-> 2]]

\* the style_patterns dict with its three entries in the given states
StylePatternsIn(title, desc, spec) ==
    LET keys == (IF title = "absent" THEN {} ELSE {"title_patterns"})
                \cup (IF desc = "absent" THEN {} ELSE {"description_patterns"})
                \cup (IF spec = "absent" THEN {} ELSE {"technical_spec_patterns"})
    IN [k \in keys |-> CASE k = "title_patterns" -> TitlePatternsIn(title)
                         [] k = "description_patterns" -> DescriptionPatternsIn(desc)
                         [] OTHER -> SpecPatternsIn(spec)]

\* a list of n similar products
SimilarProductsOf(n) == [i \in 1..n |-> ProductOfRow(CsvRow1, TRUE)]

InitConfidence ==
    /\ excel_handler = TRUE
    /\ style_guide_manager = [available |-> FALSE, style_guide |-> DefaultStyleGuide]
    /\ style_guide_file = MissingFile
    /\ session_manager = [available |-> FALSE, style_guide |-> DefaultStyleGuide]
    /\ memory = NoMemory
    /\ product_data = [loaded |-> FALSE, rows |-> <<>>]
    /\ manufacturer_cache = EmptyDict
    /\ pc = "idle"
    /\ call = NoCall
    /\ result = NoResult
    /\ requests = <<>>
    /\ analysis = NoAnalysis(<<>>)
    /\ returned = EmptyDict
    /\ similar_count \in 0..MaxSimilar
    /\ title_state \in PatternStates
    /\ desc_state \in PatternStates
    /\ spec_state \in PatternStates
    /\ confidence = -1
    /\ style_confidence = -1

\* _calculate_style_confidence is applied to the inputs
CalculateStyleConfidence ==
    /\ style_confidence' = calculate_style_confidence(
                               StylePatternsIn(title_state, desc_state, spec_state),
                               SimilarProductsOf(similar_count))
    /\ UNCHANGED <<similar_count, title_state, desc_state, spec_state, confidence>>
    /\ UNCHANGED genVars

\* _calculate_confidence is applied to the inputs
CalculateConfidence ==
    /\ confidence' = calculate_confidence(SimilarProductsOf(similar_count),
                                          StylePatternsIn(title_state, desc_state, spec_state))
    /\ UNCHANGED <<similar_count, title_state, desc_state, spec_state, style_confidence>>
    /\ UNCHANGED genVars

NextConfidence == CalculateStyleConfidence \/ CalculateConfidence

SpecConfidence == InitConfidence /\ [][NextConfidence]_vars

-----------------------------------------------------------------------------
(* The manufacturer-site lookup on its own *)

\* urls and product names of the lookups; the second url and the second name hold the
\* key separator
LookupUrls == {"", "https://www.honda.co.uk", "https://www.honda.co.uk_EU20i"}
LookupNames == {"Generator", "EU20i_Generator"}

\* outcomes of a page fetch in the lookups
LookupOutcomes ==
    {[kind |-> "ok", page |-> "with_features"]} \cup ManufacturerErrors

InitResearch ==
    /\ excel_handler = TRUE
    /\ style_guide_manager = [available |-> FALSE, style_guide |-> DefaultStyleGuide]
    /\ style_guide_file = MissingFile
    /\ session_manager = [available |-> FALSE, style_guide |-> DefaultStyleGuide]
    /\ memory = NoMemory
    /\ product_data = [loaded |-> FALSE, rows |-> <<>>]
    /\ manufacturer_cache = EmptyDict
    /\ pc = "idle"
    /\ call = NoCall
    /\ result = NoResult
    /\ requests = <<>>
    /\ analysis = NoAnalysis(<<>>)
    /\ returned = EmptyDict
    /\ similar_count = 0
    /\ title_state = "absent"
    /\ desc_state = "absent"
    /\ spec_state = "absent"
    /\ confidence = -1
    /\ style_confidence = -1

\* a caller invokes scrape_manufacturer_info and the call runs to its end
ScrapeManufacturerInfo(url, product_name) ==
    /\ pc = "idle"
    /\ \E outcome \in IF ManufacturerOutcomesFor(manufacturer_cache, url, product_name)
                         = {NoOutcome}
                      THEN {NoOutcome} ELSE LookupOutcomes :
         \E done \in {scrape_manufacturer_info(manufacturer_cache, url, product_name, outcome)} :
            /\ pc' = "done"
            /\ call' = [op |-> "scrape_manufacturer_info", url |-> url,
                        product_name |-> product_name]
            /\ result' = [status |-> "returned", value |-> done.value]
            /\ requests' = done.requests
            /\ manufacturer_cache' = done.cache
    /\ UNCHANGED <<excel_handler, style_guide_manager, style_guide_file, session_manager, memory,
                   product_data,
                   analysis, returned>>
    /\ UNCHANGED confVars

\* the caller has taken the result; the history notes what this pair was given
ReturnFromLookup ==
    /\ pc = "done"
    /\ call.op = "scrape_manufacturer_info"
    /\ pc' = "idle"
    /\ returned' = [p \in DOMAIN returned \cup {<<call.url, call.product_name>>} |->
                       IF p = <<call.url, call.product_name>> THEN result.value
                       ELSE returned[p]]
    /\ call' = NoCall
    /\ result' = NoResult
    /\ requests' = <<>>
    /\ UNCHANGED <<excel_handler, style_guide_manager, style_guide_file, session_manager, memory,
                   product_data,
                   manufacturer_cache, analysis>>
    /\ UNCHANGED confVars

NextResearch ==
    \/ \E url \in LookupUrls, product_name \in LookupNames :
           ScrapeManufacturerInfo(url, product_name)
    \/ ReturnFromLookup

SpecResearch == InitResearch /\ [][NextResearch]_vars

-----------------------------------------------------------------------------
(* The feedback store on its own *)

\* the store takes calls until its three lists hold this many entries together
MaxEntries == 3

\* datetime.now().strftime(...) at the calls
Timestamps == {"2025-01-01 10:00:00"}

\* what the feedback form and ProductDescriptionGenerator.add_feedback pass on
FeedbackInputs ==
    {[content_type |-> "title", feedback |-> <<"Avoid", "Quiet">>, example |-> None],
     [content_type |-> "description", feedback |-> <<"Avoid", "Silent">>,
      example |-> [type |-> "dict",
                   value |-> [content |-> <<"Super", "Silent">>, product_code |-> None]]],
     [content_type |-> "features", feedback |-> <<"Prefer", "Site">>,
      example |-> [type |-> "dict",
                   value |-> [content |-> <<"Site">>, product_code |-> Str(<<"03/185">>)]]],
     [content_type |-> "general", feedback |-> <<"Quiet">>, example |-> None]}

\* what the approve and reject forms and approve_content / reject_content pass on
ApprovedInputs ==
    {[content_type |-> "title", content |-> <<"Honda", "EU20i">>, product_code |-> None],
     [content_type |-> "title", content |-> <<"Honda", "EU20i">>,
      product_code |-> Str(<<"13/GEN001">>)]}
RejectedInputs ==
    {[content_type |-> "description", content |-> <<"Quiet">>, reason |-> <<"Avoid", "Quiet">>,
      product_code |-> Str(<<>>)]}

\* what data/style_guide.json can hold when the manager is constructed: nothing, no
\* JSON, a guide with guidance in it, or a guide with feedback of an earlier session
StartFiles ==
    {MissingFile, [state |-> "corrupt"],
     [state |-> "document", document |-> DumpStyleGuide(LoadedStyleGuide)],
     [state |-> "document",
      document |-> DumpStyleGuide(
          [DefaultStyleGuide EXCEPT !.feedback_log =
              <<[timestamp |-> "2024-12-31 09:00:00", content_type |-> "title",
                 feedback |-> <<"Prefer", "Honda">>, example |-> None]>>])]}

\* StyleGuideManager.__init__
InitStore ==
    /\ excel_handler = FALSE
    /\ style_guide_file \in StartFiles
    /\ style_guide_manager = [available |-> TRUE,
                              style_guide |-> load_style_guide(style_guide_file)]
    /\ session_manager = [available |-> FALSE, style_guide |-> DefaultStyleGuide]
    /\ memory = NoMemory
    /\ product_data = [loaded |-> FALSE, rows |-> <<>>]
    /\ manufacturer_cache = EmptyDict
    /\ pc = "idle"
    /\ call = NoCall
    /\ result = NoResult
    /\ requests = <<>>
    /\ analysis = NoAnalysis(<<>>)
    /\ returned = EmptyDict
    /\ similar_count = 0
    /\ title_state = "absent"
    /\ desc_state = "absent"
    /\ spec_state = "absent"
    /\ confidence = -1
    /\ style_confidence = -1

\* the effect of a mutating call on the state of the store and on what its caller sees;
\* the store takes calls until its three lists hold MaxEntries entries together
StoreCall(op, done) ==
    /\ Len(style_guide_manager.style_guide.feedback_log)
          + Len(style_guide_manager.style_guide.approved_examples)
          + Len(style_guide_manager.style_guide.rejected_examples) < MaxEntries
    /\ pc' = "done"
    /\ call' = op
    /\ result' = [status |-> "returned", value |-> done.value]
    /\ requests' = done.requests
    /\ analysis' = [steps |-> <<"save_style_guide">>, printed |-> done.printed]
    /\ style_guide_manager' = [style_guide_manager EXCEPT !.style_guide = done.guide]
    /\ style_guide_file' = done.file
    /\ UNCHANGED <<excel_handler, session_manager, memory, product_data, manufacturer_cache,
                   returned>>
    /\ UNCHANGED confVars

\* a caller invokes add_feedback
AddFeedback(timestamp, in, outcome) ==
    StoreCall([op |-> "add_feedback", timestamp |-> timestamp, args |-> in],
              add_feedback(style_guide_manager.style_guide, style_guide_file, timestamp,
                           in.content_type, in.feedback, in.example, outcome))

\* a caller invokes add_approved_example
AddApprovedExample(timestamp, in, outcome) ==
    StoreCall([op |-> "add_approved_example", timestamp |-> timestamp, args |-> in],
              add_approved_example(style_guide_manager.style_guide, style_guide_file,
                                   timestamp, in.content_type, in.content, in.product_code,
                                   outcome))

\* a caller invokes add_rejected_example
AddRejectedExample(timestamp, in, outcome) ==
    StoreCall([op |-> "add_rejected_example", timestamp |-> timestamp, args |-> in],
              add_rejected_example(style_guide_manager.style_guide, style_guide_file,
                                   timestamp, in.content_type, in.content, in.reason,
                                   in.product_code, outcome))

\* the process is started again: a new StyleGuideManager loads the file
LoadStyleGuide ==
    /\ pc = "done"
    /\ pc' = "idle"
    /\ call' = [op |-> "load_style_guide"]
    /\ result' = NoResult
    /\ requests' = <<>>
    /\ analysis' = NoAnalysis(<<>>)
    /\ style_guide_manager' = [style_guide_manager EXCEPT
                                  !.style_guide = load_style_guide(style_guide_file)]
    /\ UNCHANGED <<excel_handler, style_guide_file, session_manager, memory, product_data, manufacturer_cache,
                   returned>>
    /\ UNCHANGED confVars

NextStore ==
    \/ \E timestamp \in Timestamps, in \in FeedbackInputs, outcome \in WriteOutcomes :
           AddFeedback(timestamp, in, outcome)
    \/ \E timestamp \in Timestamps, in \in ApprovedInputs, outcome \in WriteOutcomes :
           AddApprovedExample(timestamp, in, outcome)
    \/ \E timestamp \in Timestamps, in \in RejectedInputs, outcome \in WriteOutcomes :
           AddRejectedExample(timestamp, in, outcome)
    \/ LoadStyleGuide

SpecStore == InitStore /\ [][NextStore]_vars

-----------------------------------------------------------------------------
(* Two StyleGuideManager instances on one file *)

\* each instance takes calls until its three lists hold this many entries together
MaxShared == 2

\* what data/style_guide.json can hold when the dashboard starts: nothing, a guide with
\* feedback of an earlier session, or such a document that json.load cannot read (it
\* was saved with a byte-order mark or edited by hand), so that json.load raises
SharedStartFiles ==
    LET earlier == DumpStyleGuide(
                       [DefaultStyleGuide EXCEPT !.feedback_log =
                           <<[timestamp |-> "2024-12-31 09:00:00", content_type |-> "title",
                              feedback |-> <<"Prefer", "Honda">>, example |-> None]>>])
    IN {MissingFile, [state |-> "document", document |-> earlier],
        [state |-> "unreadable", document |-> earlier]}

\* streamlit_app.py at start-up: ProductDescriptionGenerator.__init__ constructs the
\* generator's own StyleGuideManager, then the dashboard constructs its instance; both
\* load the same file
InitShared ==
    /\ excel_handler = TRUE
    /\ style_guide_file \in SharedStartFiles
    /\ style_guide_manager = [available |-> TRUE,
                              style_guide |-> load_style_guide(style_guide_file)]
    /\ session_manager = [available |-> TRUE,
                          style_guide |-> load_style_guide(style_guide_file)]
    /\ memory = NoMemory
    /\ product_data = [loaded |-> FALSE, rows |-> <<>>]
    /\ manufacturer_cache = EmptyDict
    /\ pc = "idle"
    /\ call = NoCall
    /\ result = NoResult
    /\ requests = <<>>
    /\ analysis = NoAnalysis(<<>>)
    /\ returned = EmptyDict
    /\ similar_count = 0
    /\ title_state = "absent"
    /\ desc_state = "absent"
    /\ spec_state = "absent"
    /\ confidence = -1
    /\ style_confidence = -1

\* a mutating call through one of the two instances: "session" is the dashboard's forms
\* (style_manager.add_...), "generator" is ProductDescriptionGenerator.add_feedback,
\* approve_content and reject_content; the write of the file succeeds
RecordThrough(instance, op, timestamp, in) ==
    LET manager == IF instance = "session" THEN session_manager ELSE style_guide_manager
        guide == manager.style_guide
        done == CASE op = "add_feedback" ->
                         add_feedback(guide, style_guide_file, timestamp, in.content_type,
                                      in.feedback, in.example, "written")
                  [] op = "add_approved_example" ->
                         add_approved_example(guide, style_guide_file, timestamp,
                                              in.content_type, in.content, in.product_code,
                                              "written")
                  [] op = "add_rejected_example" ->
                         add_rejected_example(guide, style_guide_file, timestamp,
                                              in.content_type, in.content, in.reason,
                                              in.product_code, "written")
    IN /\ Len(guide.feedback_log) + Len(guide.approved_examples)
             + Len(guide.rejected_examples) < MaxShared
       /\ pc' = "done"
       /\ call' = [op |-> op, instance |-> instance, timestamp |-> timestamp, args |-> in]
       /\ result' = [status |-> "returned", value |-> done.value]
       /\ requests' = done.requests
       /\ analysis' = [steps |-> <<"save_style_guide">>, printed |-> done.printed]
       /\ style_guide_file' = done.file
       /\ IF instance = "session"
          THEN /\ session_manager' = [session_manager EXCEPT !.style_guide = done.guide]
               /\ UNCHANGED style_guide_manager
          ELSE /\ style_guide_manager' = [style_guide_manager EXCEPT
                                             !.style_guide = done.guide]
               /\ UNCHANGED session_manager
       /\ UNCHANGED <<excel_handler, memory, product_data, manufacturer_cache, returned>>
       /\ UNCHANGED confVars

NextShared ==
    \E instance \in {"session", "generator"},
       timestamp \in {"2025-01-01 10:00:00", "2025-01-01 10:05:00"} :
        \/ \E in \in FeedbackInputs : RecordThrough(instance, "add_feedback", timestamp, in)
        \/ \E in \in ApprovedInputs :
               RecordThrough(instance, "add_approved_example", timestamp, in)
        \/ \E in \in RejectedInputs :
               RecordThrough(instance, "add_rejected_example", timestamp, in)

SpecShared == InitShared /\ [][NextShared]_vars

-----------------------------------------------------------------------------
(* ProductDescriptionGenerator: the Feature Extractor, on texts as strings *)

RECURSIVE LowerText(_)
\* str.lower()
LowerText(text) ==
    LET upper == "ABCDEFGHIJKLMNOPQRSTUVWXYZ"
        lower == "abcdefghijklmnopqrstuvwxyz"
        c == SubSeq(text, 1, 1)
        at == {i \in 1..26 : SubSeq(upper, i, i) = c}
    IN IF text = "" THEN ""
       ELSE (IF at = {} THEN c ELSE LET i == CHOOSE i \in at : TRUE IN SubSeq(lower, i, i))
            \o LowerText(SubSeq(text, 2, Len(text)))

\* `part in text` on two str
Contains(text, part) ==
    \E i \in 1..(Len(text) - Len(part) + 1) : SubSeq(text, i, i + Len(part) - 1) = part

RECURSIVE StripText(_)
\* str.strip(), for texts whose only white space is the blank
StripText(text) ==
    IF text = "" THEN ""
    ELSE IF SubSeq(text, 1, 1) = " " THEN StripText(SubSeq(text, 2, Len(text)))
    ELSE IF SubSeq(text, Len(text), Len(text)) = " "
    THEN StripText(SubSeq(text, 1, Len(text) - 1))
    ELSE text

RECURSIVE TitleText(_, _)
\* key.replace('_', ' ').title(): after is TRUE when the character before was a letter
TitleText(key, after) ==
    LET upper == "ABCDEFGHIJKLMNOPQRSTUVWXYZ"
        lower == "abcdefghijklmnopqrstuvwxyz"
        c == IF SubSeq(key, 1, 1) = "_" THEN " " ELSE SubSeq(key, 1, 1)
        up == {i \in 1..26 : SubSeq(upper, i, i) = c}
        low == {i \in 1..26 : SubSeq(lower, i, i) = c}
        cased == IF after THEN LowerText(c)
                 ELSE IF low = {} THEN c
                 ELSE LET i == CHOOSE i \in low : TRUE IN SubSeq(upper, i, i)
    IN IF key = "" THEN ""
       ELSE cased \o TitleText(SubSeq(key, 2, Len(key)), up # {} \/ low # {})

\* ProductDescriptionGenerator._get_practical_category_features
get_practical_category_features(category, product) ==
    LET category_features ==
            [c \in {"Access Equipment", "Breaking & Drilling", "Garden Equipment",
                    "Generators", "Site Equipment"} |->
                CASE c = "Access Equipment" ->
                         <<"Full guardrail protection", "Non-slip platform surface",
                           "Emergency lowering system", "Stabilising outriggers">>
                  [] c = "Breaking & Drilling" ->
                         <<"Anti-vibration handle", "Variable speed control",
                           "SDS chuck system", "Dust extraction port">>
                  [] c = "Garden Equipment" ->
                         <<"Easy start system", "Adjustable cutting height",
                           "Grass collection bag", "Foldable handle">>
                  [] c = "Generators" ->
                         <<"Automatic voltage regulation", "Low oil shutdown protection",
                           "Multiple power outlets", "Fuel gauge">>
                  [] c = "Site Equipment" ->
                         <<"Robust steel construction", "Weather resistant finish",
                           "Easy transport design", "Quick setup system">>]
        power_type == LowerText(product.power_type)
    IN (IF category \in DOMAIN category_features THEN Take(category_features[category], 2)
        ELSE <<>>)
       \o (CASE power_type = "petrol" -> <<"Petrol engine operation">>
             [] power_type = "electric" -> <<"Electric motor operation">>
             [] power_type = "battery" -> <<"Cordless battery operation">>
             [] OTHER -> <<>>)

\* any(fluff in text.lower() for fluff in words)
AnyIn(words, text) == \E w \in words : Contains(LowerText(text), w)

RECURSIVE Deduplicate(_, _, _)
\* the clean-up loop of _extract_genuine_features: unique_features after the features
\* from index i on, given unique_features so far
Deduplicate(features, i, unique_features) ==
    IF i > Len(features) THEN unique_features
    ELSE LET feature_clean == StripText(features[i])
             feature_lower == LowerText(feature_clean)
             similar == \E j \in 1..Len(unique_features) :
                            LET existing == LowerText(unique_features[j])
                            IN Contains(feature_lower, existing)
                               \/ Contains(existing, feature_lower)
         IN Deduplicate(features, i + 1,
                        IF similar THEN unique_features
                        ELSE Append(unique_features, feature_clean))

\* the list `features` of _extract_genuine_features before the clean-up: the <li> items
\* of the description, the allow-listed technical specs, the manufacturer features and
\* the category features; the description is a str given by the texts of its <li> items
genuine_feature_candidates(product, manufacturer_info) ==
    LET from_description ==
            SelectSeq([i \in 1..Len(product.description.items) |->
                          StripText(product.description.items[i])],
                      LAMBDA feature_text :
                          /\ Len(feature_text) > 10
                          /\ ~AnyIn({"ideal", "perfect", "exceptional", "amazing", "best"},
                                    feature_text))
        allowed == {"power", "voltage", "weight", "capacity", "dimensions", "motor",
                    "engine", "fuel tank", "cutting width", "platform height"}
        spec_pairs ==
            SelectSeq(product.technical_specs,
                      LAMBDA kv : kv[2] # "" /\ kv[2] # "nan" /\ LowerText(kv[1]) \in allowed)
        spec_features ==
            [i \in 1..Len(spec_pairs) |->
                TitleText(spec_pairs[i][1], FALSE) \o ": " \o spec_pairs[i][2]]
        mfr_features ==
            SelectSeq(Take(Get(manufacturer_info, "features", <<>>), 3),
                      LAMBDA feature :
                          ~AnyIn({"revolutionary", "cutting-edge", "world-class", "premium",
                                  "ultimate"}, feature))
    IN from_description \o Take(spec_features, 3) \o mfr_features
       \o get_practical_category_features(product.category, product)

\* ProductDescriptionGenerator._extract_genuine_features: `'<li>' in existing_desc`
\* raises for a description that is NaN
extract_genuine_features(product, manufacturer_info, web_research) ==
    IF ~IsStr(product.description)
    THEN Raises("TypeError: argument of type 'float' is not iterable")
    ELSE Returns(Take(Deduplicate(genuine_feature_candidates(product, manufacturer_info),
                                  1, <<>>), 5))

\* ProductDescriptionGenerator._get_category_specific_features
get_category_specific_features(category, product) ==
    LET category_features_map ==
            [c \in {"Access Equipment", "Breaking & Drilling", "Garden Equipment",
                    "Generators"} |->
                CASE c = "Access Equipment" ->
                         <<"Safety harness attachment points", "Non-slip platform surface",
                           "Easy height adjustment", "Stable base design">>
                  [] c = "Breaking & Drilling" ->
                         <<"Anti-vibration technology", "SDS chuck system",
                           "Variable speed control", "Dust extraction compatible">>
                  [] c = "Garden Equipment" ->
                         <<"Easy start system", "Adjustable cutting height",
                           "Large collection capacity", "Ergonomic handle design">>
                  [] c = "Generators" ->
                         <<"Automatic voltage regulation", "Low oil shutdown",
                           "Multiple outlet configuration", "Quiet operation">>]
        power_type == LowerText(product.power_type)
    IN (CASE power_type = "electric" -> <<"Mains powered operation", "Zero emissions">>
          [] power_type = "petrol" -> <<"High power output", "Portable operation">>
          [] power_type = "battery" ->
                 <<"Cordless convenience", "Rechargeable battery system">>
          [] OTHER -> <<>>)
       \o (IF category \in DOMAIN category_features_map
           THEN Take(category_features_map[category], 4) ELSE <<>>)

\* the list `features` of _extract_and_enhance_key_features before the clean-up
enhanced_feature_candidates(product, manufacturer_info) ==
    LET from_description ==
            SelectSeq([i \in 1..Len(product.description.items) |->
                          StripText(product.description.items[i])],
                      LAMBDA feature_text : Len(feature_text) > 5)
        spec_pairs ==
            SelectSeq(product.technical_specs,
                      LAMBDA kv : LowerText(kv[1]) \in {"power", "motor", "engine",
                                                         "capacity", "weight"})
    IN from_description
       \o [i \in 1..Len(spec_pairs) |-> spec_pairs[i][1] \o ": " \o spec_pairs[i][2]]
       \o get_category_specific_features(product.category, product)
       \o Take(Get(manufacturer_info, "features", <<>>), 3)

RECURSIVE RemoveDuplicates(_, _, _)
\* the clean-up loop of _extract_and_enhance_key_features: `seen` is the set of the
\* lower-cased, stripped features kept so far
RemoveDuplicates(features, i, unique_features) ==
    IF i > Len(features) THEN unique_features
    ELSE LET feature_clean == StripText(LowerText(features[i]))
             seen == {StripText(LowerText(unique_features[j])) :
                         j \in 1..Len(unique_features)}
         IN RemoveDuplicates(features, i + 1,
                             IF feature_clean \notin seen /\ Len(features[i]) > 10
                             THEN Append(unique_features, features[i])
                             ELSE unique_features)

\* ProductDescriptionGenerator._extract_and_enhance_key_features, the variant that
\* returns at most 8 features
extract_and_enhance_key_features(product, manufacturer_info, web_research) ==
    IF ~IsStr(product.description)
    THEN Raises("TypeError: argument of type 'float' is not iterable")
    ELSE Returns(Take(RemoveDuplicates(enhanced_feature_candidates(product,
                                                                   manufacturer_info),
                                       1, <<>>), 8))

-----------------------------------------------------------------------------
(* ProductDescriptionGenerator: technical specifications and the category helpers *)

\* bool(value) and str(value) for a catalog cell: Str(text), or NaN for an empty cell
CellTruthy(value) == IF value.type = "str" THEN value.value # "" ELSE TRUE
CellText(value) == IF value.type = "str" THEN value.value ELSE "nan"

\* ProductDescriptionGenerator._get_category_essential_specs; a dict is the sequence of
\* its <<key, value>> pairs in insertion order
get_category_essential_specs(category, product) ==
    LET own == (IF CellTruthy(product.brand) THEN << <<"Brand", product.brand>> >> ELSE <<>>)
               \o (IF CellTruthy(product.model) THEN << <<"Model", product.model>> >> ELSE <<>>)
               \o (IF CellTruthy(product.power_type)
                   THEN << <<"Power Type", product.power_type>> >> ELSE <<>>)
    IN DictUpdate(own,
           CASE category = Str("Breaking & Drilling") ->
                    << <<"Chuck Type", Str("SDS-Max")>>,
                       <<"Application", Str("Heavy-duty breaking and drilling")>>,
                       <<"Vibration Control", Str("Anti-vibration system")>> >>
             [] category = Str("Access Equipment") ->
                    << <<"Platform Type", Str("Non-slip surface")>>,
                       <<"Safety Features", Str("Guardrails and harness points")>>,
                       <<"Mobility", Str("Portable design")>> >>
             [] category = Str("Garden Equipment") ->
                    << <<"Starting System", Str("Easy-start mechanism")>>,
                       <<"Cutting System", Str("Professional grade blades")>>,
                       <<"Collection", Str("High-capacity grass bag")>> >>
             [] category = Str("Generators") ->
                    << <<"Output Type", Str("Clean AC power")>>,
                       <<"Protection", Str("Overload and low-oil protection")>>,
                       <<"Portability", Str("Compact and lightweight")>> >>
             [] OTHER -> <<>>)

\* ProductDescriptionGenerator._compile_technical_specifications: the table it returns,
\* and the two arguments as they are after the call
compile_technical_specifications(product, similar_products, manufacturer_info) ==
    LET kept == SelectSeq(product.technical_specs,
                          LAMBDA kv : kv[1] \notin {"Technical Specs Raw",
                                                    "Meta: _Technical Specification"})
        from_product == DictUpdate(<<>>, [i \in 1..Len(kept) |->
                            <<TitleText(kept[i][1], FALSE), Str(kept[i][2])>>])
        essential_specs == get_category_essential_specs(product.category, product)
        researched == Get(manufacturer_info, "specifications", <<>>)
        specs == DictUpdate(DictUpdate(from_product, essential_specs),
                            [i \in 1..Len(researched) |->
                                <<researched[i][1], Str(researched[i][2])>>])
        shown == SelectSeq(specs, LAMBDA kv : /\ CellTruthy(kv[2])
                                              /\ StripText(CellText(kv[2])) # ""
                                              /\ CellText(kv[2]) # "nan")
    IN [raised |-> FALSE,
        value |-> [i \in 1..Len(shown) |-> <<shown[i][1], StripText(CellText(shown[i][2]))>>],
        product |-> product,
        manufacturer_info |-> manufacturer_info]

\* ProductDescriptionGenerator._generate_html_technical_specs: the raw table of the record
\* restyled, a paragraph when nothing is compiled, or a table with one row for each
\* compiled entry
generate_html_technical_specs(product, similar_products, manufacturer_info) ==
    LET raw == SelectSeq(product.technical_specs,
                         LAMBDA kv : kv[1] = "Technical Specs Raw" /\ Contains(kv[2], "<table"))
        specs_data == compile_technical_specifications(product, similar_products,
                                                       manufacturer_info).value
    IN IF raw # <<>> THEN [html |-> "restyled", rows |-> <<>>, raw_html |-> raw[1][2]]
       ELSE IF specs_data = <<>>
       THEN [html |-> "<p>Technical specifications will be updated soon.</p>", rows |-> <<>>]
       ELSE [html |-> "table", rows |-> specs_data]

\* ProductDescriptionGenerator._get_category_specifications; basic_info is a dict, empty
\* for None
get_category_specifications(category, basic_info) ==
    IF Contains(category, "Generator")
    THEN << <<"Power Output", Get(basic_info, "power", "TBC")>>,
            <<"Fuel Type", Get(basic_info, "fuel_type", "Petrol/Diesel")>>,
            <<"Run Time", "Up to 8 hours">>, <<"Noise Level", "Low noise operation">> >>
    ELSE IF Contains(category, "Access")
    THEN << <<"Working Height", Get(basic_info, "height", "TBC")>>,
            <<"Platform Size", "Standard platform">>,
            <<"Weight Capacity", "Professional load rating">>,
            <<"Mobility", "Mobile/Towable">> >>
    ELSE IF Contains(category, "Cleaning")
    THEN << <<"Cleaning Width", Get(basic_info, "width", "Standard")>>,
            <<"Power Source", "Electric/Petrol">>,
            <<"Collection Capacity", "High capacity">>,
            <<"Filtration", "Professional grade">> >>
    ELSE IF Contains(category, "Breaking") \/ Contains(category, "Drilling")
    THEN << <<"Impact Energy", "High impact performance">>,
            <<"Chuck Size", "Standard fitting">>,
            <<"Power Source", "Electric/Pneumatic">>, <<"Weight", "Professional grade">> >>
    ELSE << <<"Power Source", Get(basic_info, "power_source", "Electric/Petrol")>>,
            <<"Operation", "Professional grade">>,
            <<"Maintenance", "Professionally maintained">>,
            <<"Training", "Operating instructions included">> >>

\* the specs of _generate_technical_specs: the base entries, the category's entries and
\* a placeholder for each of the first 10 common fields that has no entry yet
TableWithPlaceholders(code_analysis, basic_info, common_fields) ==
    LET specs == DictUpdate(<< <<"Category", code_analysis.category>>,
                               <<"Product Code", code_analysis.full_code>>,
                               <<"Availability", "Same Day Hire">>,
                               <<"Delivery", "Available across London">> >>,
                            get_category_specifications(code_analysis.category, basic_info))
        missing == SelectSeq(Take(common_fields, 10),
                             LAMBDA field : \A i \in 1..Len(specs) : specs[i][1] # field)
    IN DictUpdate(specs, [i \in 1..Len(missing) |->
                             <<missing[i], "Specification available on request">>])

\* ProductDescriptionGenerator._generate_technical_specs that takes the fields it tops up
\* out of the list common_fields
generate_technical_specs_consuming(code_analysis, basic_info, style_patterns) ==
    LET common_fields == Get(Get(style_patterns, "technical_spec_patterns", EmptyDict),
                             "common_fields", <<>>)
    IN [raised |-> FALSE,
        value |-> TableWithPlaceholders(code_analysis, basic_info, common_fields),
        code_analysis |-> code_analysis,
        basic_info |-> basic_info,
        style_patterns |->
            IF common_fields = <<>> THEN style_patterns
            ELSE [technical_spec_patterns |->
                     [common_fields |-> SubSeq(common_fields, 11, Len(common_fields))]]]

\* ProductDescriptionGenerator._generate_technical_specs: the table it returns, and the
\* three arguments as they are after the call
generate_technical_specs(code_analysis, basic_info, style_patterns) ==
    [raised |-> FALSE,
     value |-> TableWithPlaceholders(code_analysis, basic_info,
                   Get(Get(style_patterns, "technical_spec_patterns", EmptyDict),
                       "common_fields", <<>>)),
     code_analysis |-> code_analysis,
     basic_info |-> basic_info,
     style_patterns |-> style_patterns]

\* ProductDescriptionGenerator._infer_type_from_category; the category is Str(text), or
\* NaN for an empty cell
infer_type_from_category(category) ==
    LET type_mapping ==
            [c \in {"Access Equipment", "Air Compressors & Tools", "Breaking & Drilling",
                    "Cleaning Equipment", "Compaction Equipment", "Concrete Equipment",
                    "Cutting & Grinding", "Dehumidifiers", "Electrical Equipment",
                    "Fans & Ventilation", "Floor Care", "Garden Equipment", "Generators",
                    "Hand Tools", "Heating", "Lifting Equipment", "Lighting", "Power Tools",
                    "Pumps", "Safety Equipment", "Site Equipment", "Temporary Structures",
                    "Testing Equipment", "Waste Management", "Welding Equipment"} |->
                CASE c = "Access Equipment" -> "Access Platform"
                  [] c = "Air Compressors & Tools" -> "Air Compressor"
                  [] c = "Breaking & Drilling" -> "Breaker"
                  [] c = "Cleaning Equipment" -> "Cleaner"
                  [] c = "Compaction Equipment" -> "Compactor"
                  [] c = "Concrete Equipment" -> "Concrete Mixer"
                  [] c = "Cutting & Grinding" -> "Cutter"
                  [] c = "Dehumidifiers" -> "Dehumidifier"
                  [] c = "Electrical Equipment" -> "Electrical Tool"
                  [] c = "Fans & Ventilation" -> "Fan"
                  [] c = "Floor Care" -> "Floor Sander"
                  [] c = "Garden Equipment" -> "Garden Tool"
                  [] c = "Generators" -> "Generator"
                  [] c = "Hand Tools" -> "Hand Tool"
                  [] c = "Heating" -> "Heater"
                  [] c = "Lifting Equipment" -> "Lifting Equipment"
                  [] c = "Lighting" -> "Light"
                  [] c = "Power Tools" -> "Power Tool"
                  [] c = "Pumps" -> "Pump"
                  [] c = "Safety Equipment" -> "Safety Equipment"
                  [] c = "Site Equipment" -> "Site Equipment"
                  [] c = "Temporary Structures" -> "Temporary Structure"
                  [] c = "Testing Equipment" -> "Testing Equipment"
                  [] c = "Waste Management" -> "Waste Equipment"
                  [] c = "Welding Equipment" -> "Welder"]
    IN Returns(IF category.type = "str" /\ category.value \in DOMAIN type_mapping
               THEN type_mapping[category.value] ELSE "Equipment")

\* ProductDescriptionGenerator._get_category_benefits
benefits_mapping ==
    [c \in {"Access Equipment", "Breaking & Drilling", "Cleaning Equipment", "Generators",
            "Garden Equipment"} |->
        CASE c = "Access Equipment" ->
                 <<"safe working at height solutions", "stable platform for elevated work",
                   "professional access capabilities",
                   "enhanced safety features and stability">>
          [] c = "Breaking & Drilling" ->
                 <<"powerful breaking and drilling performance",
                   "efficient demolition capabilities",
                   "precision drilling for various materials",
                   "robust construction for heavy-duty applications">>
          [] c = "Cleaning Equipment" ->
                 <<"superior cleaning performance", "efficient dirt and debris removal",
                   "professional cleaning results", "time-saving cleaning solutions">>
          [] c = "Generators" ->
                 <<"reliable portable power generation", "consistent electrical supply",
                   "professional power solutions", "dependable backup power capabilities">>
          [] c = "Garden Equipment" ->
                 <<"professional garden maintenance capabilities",
                   "efficient outdoor project solutions", "superior garden care performance",
                   "professional landscaping results">>]

\* _get_category_benefits that indexes the table instead of calling dict.get
get_category_benefits_indexed(category) ==
    IF category.type = "str" /\ category.value \in DOMAIN benefits_mapping
    THEN Returns(benefits_mapping[category.value])
    ELSE Raises("KeyError: " \o CellText(category))

get_category_benefits(category) ==
    Returns(IF category.type = "str" /\ category.value \in DOMAIN benefits_mapping
            THEN benefits_mapping[category.value]
            ELSE <<"professional performance and reliability",
                   "efficient operation for demanding applications",
                   "superior results for your projects",
                   "trusted performance by professionals">>)

\* ProductDescriptionGenerator._get_category_applications
get_category_applications(category) ==
    LET applications_mapping ==
            [c \in {"Access Equipment", "Breaking & Drilling", "Cleaning Equipment",
                    "Generators", "Garden Equipment"} |->
                CASE c = "Access Equipment" ->
                         <<"building maintenance", "construction projects",
                           "installation work", "painting and decorating">>
                  [] c = "Breaking & Drilling" ->
                         <<"demolition work", "concrete breaking", "road repairs",
                           "construction projects">>
                  [] c = "Cleaning Equipment" ->
                         <<"deep cleaning projects", "surface preparation",
                           "maintenance cleaning", "restoration work">>
                  [] c = "Generators" ->
                         <<"outdoor events", "construction sites", "emergency backup power",
                           "remote locations">>
                  [] c = "Garden Equipment" ->
                         <<"landscaping projects", "garden maintenance", "grounds keeping",
                           "outdoor renovations">>]
    IN Returns(IF category.type = "str" /\ category.value \in DOMAIN applications_mapping
               THEN applications_mapping[category.value]
               ELSE <<"professional applications", "commercial projects",
                      "maintenance work", "construction tasks">>)

\* ProductDescriptionGenerator._generate_title; basic_info is a dict, empty for None or {}
generate_title(code_analysis, basic_info, style_patterns) ==
    LET given == DictTruthy(basic_info)
        brand == Get(basic_info, "brand", "")
        model == Get(basic_info, "model", "")
        product_type == IF given THEN Get(basic_info, "type", "")
                        ELSE infer_type_from_category(Str(code_analysis.category)).value
        differentiator == Get(basic_info, "differentiator", "")
        power_type == Get(basic_info, "power_type", "")
        common_words == Get(Get(style_patterns, "title_patterns", EmptyDict),
                            "common_words", <<>>)
        potential_brands == {"Honda", "Stihl", "Makita", "Bosch", "Husqvarna", "DeWalt",
                             "Hilti", "Karcher"}
        branded == SelectSeq(common_words,
                             LAMBDA word : TitleText(word, FALSE) \in potential_brands)
        title_parts ==
            (IF brand # "" THEN <<brand>>
             ELSE IF branded # <<>> THEN <<TitleText(branded[1], FALSE)>> ELSE <<>>)
            \o (IF model # "" THEN <<model>> ELSE <<>>)
            \o (IF product_type # "" THEN <<product_type>> ELSE <<>>)
            \o (IF differentiator # "" THEN <<"- " \o differentiator>> ELSE <<>>)
            \o (IF power_type = "" THEN <<>>
                ELSE IF differentiator # "" THEN <<power_type>>
                ELSE <<"- " \o power_type>>)
    IN Returns(IF title_parts # <<>> THEN Join(title_parts, " ")
               ELSE "Professional " \o code_analysis.category \o " - "
                    \o code_analysis.product_identifier)

-----------------------------------------------------------------------------
(* The assembly helpers on their own *)

\* products as the catalog lookup gives them to the Feature Extractor: the <li> items of
\* the description (or NaN), the parsed technical specs, category and power type
ItemLists ==
    {<<>>,
     <<"Automatic voltage regulation (AVR)", "Ideal for site use">>,
     <<"Premium steel frame construction", "Recoil start">>,
     <<" PETROL ENGINE OPERATION ", "Fuel gauge", "Low oil alarm">>}
SpecLists ==
    {<<>>,
     << <<"Weight", "21kg">>, <<"Power", "1600W">>, <<"Brand", "Honda">>,
        <<"Fuel Tank", "3.6L">>, <<"Dimensions", "51x29x42cm">> >>,
     << <<"Engine", "Best in class 4-stroke">>, <<"Power Type", "Petrol">> >>}
FeatureProducts ==
    [description : {[type |-> "str", items |-> items] : items \in ItemLists} \cup {NaN},
     technical_specs : SpecLists,
     category : {"Generators", "Power Tools"},
     power_type : {"", "Petrol"}]

\* manufacturer_info as scrape_manufacturer_info gives it: nothing, an error, or a page
\* with up to 5 features
FeatureBundles ==
    {EmptyDict,
     [website |-> "https://www.honda.co.uk", error |-> "Read timed out"],
     ManufacturerInfoOf("https://www.honda.co.uk", "with_features"),
     [ManufacturerInfoOf("https://www.honda.co.uk", "with_features") EXCEPT !.features =
         <<"World-class inverter technology", "Eco throttle fuel saving",
           "Parallel operation capability", "Lightweight carry handle">>],
     [ManufacturerInfoOf("https://www.honda.co.uk", "with_features") EXCEPT !.features =
         <<"The best portable generator", "Low Oil Shutdown Protection System">>]}

\* products as _compile_technical_specifications gets them: the parsed technical specs
\* and the catalog cells category, brand, model and power_type
SpecProducts ==
    [technical_specs : {<<>>,
                        << <<"power_type", "petrol">>, <<"Weight", " 21kg ">>,
                           <<"Technical Specs Raw", "<table></table>">>,
                           <<"noise_level", "nan">> >>,
                        << <<"mobility", "Towable">>, <<"Rated Output", "">> >>},
     category : {Str("Generators"), Str("Access Equipment"), Str("Power Tools")},
     brand : {Str("Honda"), Str(""), NaN},
     model : {Str("EU22i")},
     power_type : {Str("Petrol"), Str("")}]

\* the inputs of _generate_technical_specs: the analysed code, the basic info the user
\* entered and the style patterns with the common technical fields
CodeAnalyses ==
    {[category |-> c, full_code |-> "03/185"] :
        c \in {"Generators", "Access Equipment", "Cleaning Equipment",
               "Breaking & Drilling", "Power Tools"}}
BasicInfos == {EmptyDict, [power |-> "2.2kW", power_source |-> "Battery"]}
StylePatternSets ==
    {EmptyDict,
     [technical_spec_patterns |-> [common_fields |-> <<"Power Source", "Weight", "Mobility">>]],
     [technical_spec_patterns |->
         [common_fields |-> <<"Power", "Weight", "Voltage", "Dimensions", "Noise Level",
                              "Run Time", "Capacity", "Speed", "Torque", "Category",
                              "Warranty", "Colour">>]]}

\* a caller invokes _extract_genuine_features and the call runs to its end
ExtractGenuineFeatures(product, manufacturer_info) ==
    /\ pc = "idle"
    /\ \E done \in {extract_genuine_features(product, manufacturer_info, EmptyDict)} :
          result' = IF done.raised THEN [status |-> "raised", error |-> done.error]
                    ELSE [status |-> "returned", value |-> done.value]
    /\ pc' = "done"
    /\ call' = [op |-> "_extract_genuine_features", product |-> product,
                manufacturer_info |-> manufacturer_info]
    /\ UNCHANGED <<excel_handler, style_guide_manager, style_guide_file, session_manager, memory,
                   product_data,
                   manufacturer_cache, requests, analysis, returned>>
    /\ UNCHANGED confVars

\* a caller invokes _extract_and_enhance_key_features and the call runs to its end
ExtractAndEnhanceKeyFeatures(product, manufacturer_info) ==
    /\ pc = "idle"
    /\ \E done \in {extract_and_enhance_key_features(product, manufacturer_info, EmptyDict)} :
          result' = IF done.raised THEN [status |-> "raised", error |-> done.error]
                    ELSE [status |-> "returned", value |-> done.value]
    /\ pc' = "done"
    /\ call' = [op |-> "_extract_and_enhance_key_features", product |-> product,
                manufacturer_info |-> manufacturer_info]
    /\ UNCHANGED <<excel_handler, style_guide_manager, style_guide_file, session_manager, memory,
                   product_data,
                   manufacturer_cache, requests, analysis, returned>>
    /\ UNCHANGED confVars

\* the two operations that assemble a table of technical specifications
TechSpecOps == {"_compile_technical_specifications", "_generate_technical_specs"}

\* one call of a technical-spec operation on the objects that the caller holds
assemble_technical_specs(op, held) ==
    IF op = "_compile_technical_specifications"
    THEN LET done == compile_technical_specifications(held.product, <<>>,
                                                      held.manufacturer_info)
         IN [value |-> done.value,
             held |-> [product |-> done.product,
                       manufacturer_info |-> done.manufacturer_info]]
    ELSE LET done == generate_technical_specs(held.code_analysis, held.basic_info,
                                              held.style_patterns)
         IN [value |-> done.value,
             held |-> [code_analysis |-> done.code_analysis,
                       basic_info |-> done.basic_info,
                       style_patterns |-> done.style_patterns]]

\* a caller invokes a technical-spec operation on objects it holds; `args` keeps the
\* objects as they were passed, `held` is what they are after the call
AssembleTechnicalSpecs(op, args) ==
    /\ pc = "idle"
    /\ \E done \in {assemble_technical_specs(op, args)} :
          /\ result' = [status |-> "returned", value |-> done.value]
          /\ call' = [op |-> op, args |-> args, held |-> done.held, earlier |-> <<>>]
    /\ pc' = "done"
    /\ UNCHANGED <<excel_handler, style_guide_manager, style_guide_file, session_manager, memory,
                   product_data,
                   manufacturer_cache, requests, analysis, returned>>
    /\ UNCHANGED confVars

\* the caller invokes the same operation once more on the same objects
AssembleAgain ==
    /\ pc = "done"
    /\ call.op \in TechSpecOps
    /\ call.earlier = <<>>
    /\ \E done \in {assemble_technical_specs(call.op, call.held)} :
          /\ result' = [status |-> "returned", value |-> done.value]
          /\ call' = [call EXCEPT !.held = done.held, !.earlier = <<result.value>>]
    /\ UNCHANGED <<pc, excel_handler, style_guide_manager, style_guide_file, session_manager, memory,
                   product_data,
                   manufacturer_cache, requests, analysis, returned>>
    /\ UNCHANGED confVars

\* the categories the helpers are asked about: in all tables, in the type table only, in
\* none, in other letter case, empty, and the NaN of an empty cell
HelperCategories ==
    {Str("Generators"), Str("Power Tools"), Str("Marquees"), Str("generators"), Str(""), NaN}

\* a caller invokes one of the category helpers; product is EmptyDict for the helpers
\* that take the category only
CategoryHelper(op, category, product) ==
    /\ pc = "idle"
    /\ \E done \in {CASE op = "_infer_type_from_category" -> infer_type_from_category(category)
                      [] op = "_get_category_benefits" -> get_category_benefits(category)
                      [] op = "_get_category_applications" ->
                             get_category_applications(category)
                      [] op = "_get_category_essential_specs" ->
                             Returns(get_category_essential_specs(category, product))} :
          result' = IF done.raised THEN [status |-> "raised", error |-> done.error]
                    ELSE [status |-> "returned", value |-> done.value]
    /\ pc' = "done"
    /\ call' = [op |-> op, category |-> category, product |-> product]
    /\ UNCHANGED <<excel_handler, style_guide_manager, style_guide_file, session_manager, memory,
                   product_data,
                   manufacturer_cache, requests, analysis, returned>>
    /\ UNCHANGED confVars

\* the basic info a user enters for a title: nothing, or a dict with the five fields,
\* each filled in or left empty
TitleInfos ==
    {EmptyDict}
    \cup [brand : {"", "Honda"}, model : {"", "EU22i"}, type : {"", "Inverter Generator"},
          differentiator : {"", "2.2kW"}, power_type : {"", "Petrol"}]

\* a caller invokes _generate_title
GenerateTitle(code_analysis, basic_info, style_patterns) ==
    /\ pc = "idle"
    /\ \E done \in {generate_title(code_analysis, basic_info, style_patterns)} :
          result' = [status |-> "returned", value |-> done.value]
    /\ pc' = "done"
    /\ call' = [op |-> "_generate_title", code_analysis |-> code_analysis,
                basic_info |-> basic_info, style_patterns |-> style_patterns]
    /\ UNCHANGED <<excel_handler, style_guide_manager, style_guide_file, session_manager, memory,
                   product_data, manufacturer_cache, requests, analysis, returned>>
    /\ UNCHANGED confVars

\* descriptions for the opening: an avoid word with a comma attached in the first
\* sentence; one usable sentence in a description of 40 characters; the avoid word on
\* its own in the first sentence; hire boilerplate and markup before a usable sentence;
\* no usable sentence; no description
IntroDescriptions ==
    {Text(<<[lead |-> 0, words |-> <<"Runs", "quiet,", "even", "under", "full", "load">>],
            [lead |-> 1, words |-> <<"Electric", "start", "and", "long", "run", "time">>],
            [lead |-> 0, words |-> <<>>]>>),
     Text(<<[lead |-> 0, words |-> <<"Compact", "petrol", "generator", "for", "site",
                                     "power">>],
            [lead |-> 0, words |-> <<>>]>>),
     Text(<<[lead |-> 0, words |-> <<"Quiet", "running", "petrol", "inverter", "generator">>],
            [lead |-> 1, words |-> <<"Electric", "start", "and", "long", "run", "time">>],
            [lead |-> 0, words |-> <<>>]>>),
     Text(<<[lead |-> 0, words |-> <<"<p>", "Portable", "power", "for", "any", "site">>],
            [lead |-> 1, words |-> <<"Available", "for", "Hire", "across", "London">>],
            [lead |-> 1, words |-> <<"Electric", "start", "and", "long", "run", "time">>],
            [lead |-> 0, words |-> <<"</p>">>]>>),
     Text(<<[lead |-> 0, words |-> <<"Petrol", "generator">>],
            [lead |-> 1, words |-> <<"Electric", "start">>],
            [lead |-> 1, words |-> <<"Long", "run", "time">>],
            [lead |-> 1, words |-> <<"Fuel", "gauge">>],
            [lead |-> 0, words |-> <<>>]>>),
     Text(<<[lead |-> 0, words |-> <<>>]>>)}

\* a caller invokes _generate_brief_intro on a generator whose style guide manager is
\* `manager`
GenerateBriefIntro(manager, existing_desc) ==
    /\ pc = "idle"
    /\ \E done \in {generate_brief_intro(manager, "Honda", "EU22i", <<>>, "Generators",
                                         "Petrol", existing_desc)} :
          result' = IF done.raised THEN [status |-> "raised", error |-> done.error]
                    ELSE [status |-> "returned", value |-> done.value]
    /\ pc' = "done"
    /\ call' = [op |-> "_generate_brief_intro", self |-> [style_guide_manager |-> manager],
                existing_desc |-> existing_desc]
    /\ UNCHANGED <<excel_handler, style_guide_manager, style_guide_file, session_manager, memory,
                   product_data, manufacturer_cache, requests, analysis, returned>>
    /\ UNCHANGED confVars

\* _generate_wordpress_content builds the technical table of a record: it is given the
\* style patterns and passes product, similar products and manufacturer info on to
\* _generate_html_technical_specs
GenerateWordpressTable(product, manufacturer_info, style_patterns) ==
    /\ pc = "idle"
    /\ result' = [status |-> "returned",
                  value |-> [technical_specifications_html |->
                                 generate_html_technical_specs(product, <<>>,
                                                               manufacturer_info)]]
    /\ pc' = "done"
    /\ call' = [op |-> "_generate_wordpress_content", product |-> product,
                manufacturer_info |-> manufacturer_info, style_patterns |-> style_patterns]
    /\ UNCHANGED <<excel_handler, style_guide_manager, style_guide_file, session_manager, memory,
                   product_data, manufacturer_cache, requests, analysis, returned>>
    /\ UNCHANGED confVars

NextAssembly ==
    \/ \E product \in FeatureProducts, manufacturer_info \in FeatureBundles :
           \/ ExtractGenuineFeatures(product, manufacturer_info)
           \/ ExtractAndEnhanceKeyFeatures(product, manufacturer_info)
    \/ \E product \in SpecProducts,
          manufacturer_info \in {EmptyDict,
                                 ManufacturerInfoOf("https://www.honda.co.uk", "with_features")} :
           AssembleTechnicalSpecs("_compile_technical_specifications",
                                  [product |-> product, manufacturer_info |-> manufacturer_info])
    \/ \E code_analysis \in CodeAnalyses, basic_info \in BasicInfos,
          style_patterns \in StylePatternSets :
           AssembleTechnicalSpecs("_generate_technical_specs",
                                  [code_analysis |-> code_analysis, basic_info |-> basic_info,
                                   style_patterns |-> style_patterns])
    \/ AssembleAgain
    \/ \E product \in {p \in SpecProducts : p.brand = Str("Honda")},
          manufacturer_info \in {EmptyDict,
                                 ManufacturerInfoOf("https://www.honda.co.uk", "with_features")},
          style_patterns \in StylePatternSets :
           GenerateWordpressTable(product, manufacturer_info, style_patterns)
    \/ \E manager \in StyleGuideManagers, existing_desc \in IntroDescriptions \cup {NaN} :
           GenerateBriefIntro(manager, existing_desc)
    \/ \E code_analysis \in {[category |-> "Generators", product_identifier |-> "GEN999"],
                             [category |-> "Marquees", product_identifier |-> "TENT01"]},
          basic_info \in TitleInfos,
          common_words \in {<<>>, <<"hire", "honda", "generator">>, <<"dewalt", "makita">>} :
           GenerateTitle(code_analysis, basic_info,
                         [title_patterns |-> [common_words |-> common_words]])
    \/ \E op \in {"_infer_type_from_category", "_get_category_benefits",
                  "_get_category_applications"}, category \in HelperCategories :
           CategoryHelper(op, category, EmptyDict)
    \/ \E category \in HelperCategories,
          product \in [brand : {Str("Honda"), Str(""), NaN}, model : {Str("EU22i"), Str("")},
                       power_type : {Str("Petrol"), Str("")}] :
           CategoryHelper("_get_category_essential_specs", category, product)
    \/ ReturnToCaller

SpecAssembly == InitResearch /\ [][NextAssembly]_vars

-----------------------------------------------------------------------------
(* Properties of generate_product_content *)

\* a generate_product_content call has run to its end
Generated == pc = "done" /\ call.op = "generate_product_content"

\* the catalog lookup of the call found a record for its product code
CatalogMatched ==
    excel_handler /\ get_product_by_code(product_data, call.product_code).found

\* the record the catalog lookup of the call found
MatchedProduct == get_product_by_code(product_data, call.product_code)

\* the keys of the result of a catalog-matched generation, and of its research sources
ResultKeys ==
    {"product_code", "category", "generated_at", "wordpress_content", "research_sources",
     "style_confidence"}
ResearchSourceKeys ==
    {"similar_products_analyzed", "manufacturer_website", "web_research_completed",
     "style_patterns_found"}

\* a field that only a placeholder result carries
HasMarkerField(value) ==
    \/ DOMAIN value \ ResultKeys # {}
    \/ DOMAIN value.research_sources \ ResearchSourceKeys # {}

\* C1: every generate_product_content call returns a structured result that carries a
\* confidence score and a research-sources summary, and never raises
C1_EveryCallReturnsAResult ==
    Generated =>
        /\ result.status = "returned"
        /\ {"style_confidence", "research_sources"} \subseteq DOMAIN result.value

\* C2: with no catalog record and no new-product info the call returns the placeholder
\* with confidence exactly 0.2, and the result carries a dedicated flag or marker field
C2_PlaceholderIsFlagged ==
    (Generated /\ ~CatalogMatched /\ ~InfoTruthy(call.new_product_info)) =>
        /\ result.status = "returned"
        /\ result.value.style_confidence = 20
        /\ HasMarkerField(result.value)

\* C24: the category that generate_product_content derives for a code no catalog record
\* matches depends only on the two digits before the "/": the table's category for a
\* mapped prefix, the default for an unmapped or missing one, with a catalog handler and
\* with none
C24_CategoryFollowsPrefix ==
    (Generated /\ ~CatalogMatched /\ ~InfoTruthy(call.new_product_info)) =>
        /\ result.status = "returned"
        /\ LET code == call.product_code
               prefix == code[1] \o code[2]
           IN IF PrefixMatches(code) /\ prefix \in DOMAIN category_mapping
              THEN result.value.category = category_mapping[prefix]
              ELSE result.value.category \in {"Unknown", "Equipment"}

\* C3: with no catalog record and new-product info supplied the call takes the
\* new-product sub-flow, never the placeholder path and never an exception, analyses no
\* patterns, and returns confidence exactly 0.8 whatever values were supplied
C3_NewProductFlow ==
    (Generated /\ ~CatalogMatched /\ InfoTruthy(call.new_product_info)) =>
        /\ result.status = "returned"
        /\ result.value.style_confidence = 80
        /\ "manufacturer_info" \in DOMAIN result.value
        /\ result.value.category = Get(call.new_product_info.info, "category", "Equipment")
        /\ \A i \in 1..Len(analysis.steps) :
               analysis.steps[i] \notin {"get_products_by_category", "analyze_style_patterns",
                                         "_generate_fallback_content"}
        /\ analysis.similar_products = <<>>
        /\ requests = <<>>

\* a new-product call with only a product name supplied, for a code no catalog holds
C3_Witness ==
    /\ Generated
    /\ excel_handler
    /\ ~CatalogMatched
    /\ call.new_product_info.info = [name |-> "Platform"]
    /\ result.status = "returned"
    /\ result.value.style_confidence = 80

\* C4: the confidence reported for a catalog-matched product is
\* min(1.0, 0.3 + min(0.1 n, 0.4) + 0.1 per non-empty pattern kind)
C4_ReportedConfidenceFollowsFormula ==
    (Generated /\ CatalogMatched /\ result.status = "returned") =>
        result.value.style_confidence =
            calculate_confidence(analysis.similar_products, analysis.style_patterns)

\* the call of scenario A: code 13/GEN001, no brand or model supplied, a handler whose
\* catalog has no record of the code
ScenarioA ==
    /\ Generated
    /\ call.product_code = <<"1", "3", "/", "G", "E", "N", "0", "0", "1">>
    /\ ~InfoTruthy(call.new_product_info)
    /\ excel_handler
    /\ ~CatalogMatched

\* C6 as stated: scenario A resolves the category to "Generators", gives the title
\* "Professional Generators - GEN001" and reports confidence 0.3
C6_ScenarioAAsStated ==
    ScenarioA =>
        /\ result.status = "returned"
        /\ result.value.category = "Generators"
        /\ result.value.wordpress_content.suggested_title = "Professional Generators - GEN001"
        /\ result.value.style_confidence = 30

\* C6: scenario A as the code runs it: category "Generators", title
\* "Professional Generators Hire - The Hireman London", confidence 0.2, no request issued
C6_ScenarioA ==
    ScenarioA =>
        /\ result.status = "returned"
        /\ result.value.category = "Generators"
        /\ result.value.wordpress_content.suggested_title
               = "Professional Generators Hire - The Hireman London"
        /\ result.value.style_confidence = 20
        /\ requests = <<>>

\* scenario A on a catalog that was loaded with no rows
C6_Witness ==
    /\ ScenarioA
    /\ product_data.rows = <<>>
    /\ result.status = "returned"

\* C7: a record whose description is NaN is kept out of the Pattern Analyzer's input, and
\* a generation for a product whose own description is NaN completes without error
C7_NaNDescriptionIsHarmless ==
    (Generated /\ CatalogMatched) =>
        /\ \A i \in 1..Len(analysis.valid_descriptions) : IsStr(analysis.valid_descriptions[i])
        /\ ~IsStr(MatchedProduct.description) => result.status = "returned"

\* a request failed: an exception, or a status other than 200
Failed(response) ==
    \/ response.kind = "error"
    \/ "status" \in DOMAIN response /\ response.status # 200

\* the fact bundle the call got from the target of a request
BundleOf(request) ==
    IF request.target = "manufacturer" THEN analysis.manufacturer_info
    ELSE analysis.web_research

\* C8: every failure of the manufacturer lookup or of a web search comes back as a fact
\* bundle marked as errored, carrying the error message, with no features or specifications
C8_FailuresComeBackMarked ==
    Generated =>
        \A i \in 1..Len(requests) :
            Failed(requests[i].response) =>
                /\ "error" \in DOMAIN BundleOf(requests[i])
                /\ Get(BundleOf(requests[i]), "features", <<>>) = <<>>
                /\ Get(BundleOf(requests[i]), "specifications", <<>>) = <<>>

\* C10 as stated: one call issues at most 2 outbound requests in total
C10_AtMostTwoRequests == Generated => Len(requests) <= 2

\* C10: one call issues at most 3 outbound requests, at most 1 to the manufacturer site
\* and at most 2 searches, and requests nothing twice
C10_AtMostThreeRequestsNoRetry ==
    Generated =>
        /\ Len(requests) <= 3
        /\ Cardinality({i \in 1..Len(requests) : requests[i].target = "manufacturer"}) <= 1
        /\ Cardinality({i \in 1..Len(requests) : requests[i].target = "search"}) <= 2
        /\ \A i, j \in 1..Len(requests) :
               (requests[i].target = requests[j].target
                /\ requests[i].what = requests[j].what) => i = j

\* a call that made three requests, the first search of which failed
C10_Witness ==
    /\ Generated
    /\ Len(requests) = 3
    /\ requests[2].response.kind = "error"
    /\ requests[3].target = "search"

\* a request of the call ran into its timeout (requests.get(..., timeout=10))
TimedOut == \E i \in 1..Len(requests) :
    /\ requests[i].response.kind = "error"
    /\ requests[i].response.msg = "Read timed out"

\* the call was aborted with an exception
Aborted == result.status = "raised"

\* C11: a research call that runs into its timeout is surfaced to the caller of the
\* generation call as a distinct Timeout condition, by aborting the call or by a field of
\* the result that marks it, and nothing but a timeout aborts a generation call
C11_OnlyTimeoutAborts ==
    Generated =>
        /\ TimedOut => (Aborted \/ HasMarkerField(result.value))
        /\ Aborted => TimedOut

-----------------------------------------------------------------------------
(* Properties of the confidence helpers *)

\* the inputs of the helpers with n similar products
ConfidenceOf(n) ==
    calculate_confidence(SimilarProductsOf(n),
                         StylePatternsIn(title_state, desc_state, spec_state))
StyleConfidenceOf(n) ==
    calculate_style_confidence(StylePatternsIn(title_state, desc_state, spec_state),
                               SimilarProductsOf(n))

\* C5: for every similar-product count and every combination of pattern states the score
\* is within [0, 1], and with the patterns fixed it is no lower than for any smaller count
C5_ConfidenceBoundedAndMonotone ==
    /\ confidence # -1 =>
          /\ confidence \in 0..100
          /\ \A n \in 0..similar_count : ConfidenceOf(n) <= confidence
    /\ style_confidence # -1 =>
          /\ style_confidence \in 0..100
          /\ \A n \in 0..similar_count : StyleConfidenceOf(n) <= style_confidence

\* both helpers applied to five similar products, each scoring above its score for none
C5_Witness ==
    /\ similar_count = 5
    /\ confidence # -1
    /\ style_confidence # -1
    /\ confidence > ConfidenceOf(0)
    /\ style_confidence > StyleConfidenceOf(0)

-----------------------------------------------------------------------------
(* Properties of the manufacturer-site lookup *)

\* a scrape_manufacturer_info call has run to its end
LookedUp == pc = "done" /\ call.op = "scrape_manufacturer_info"

\* the pair of the call was looked up before
LookedUpBefore == <<call.url, call.product_name>> \in DOMAIN returned

C23_PairsShareNoEntry ==
    (LookedUp /\ call.url # "") =>
        /\ result.value.website = call.url
        /\ ~LookedUpBefore => requests # <<>>

-----------------------------------------------------------------------------
(* Properties of the feedback store *)

\* the calls that change the store
StoreMutators == {"add_feedback", "add_approved_example", "add_rejected_example"}

\* the three lists of the store, in memory
ListsOf(guide) == <<guide.feedback_log, guide.approved_examples, guide.rejected_examples>>

\* list earlier is a prefix of list later
IsPrefix(earlier, later) ==
    Len(earlier) <= Len(later) /\ SubSeq(later, 1, Len(earlier)) = earlier

\* the list a mutating call appends to
ListOf(op) ==
    CASE op = "add_feedback" -> 1
      [] op = "add_approved_example" -> 2
      [] op = "add_rejected_example" -> 3

\* C12: the store is append-only: a record_feedback, approve or reject call leaves the
\* earlier contents of each of the three lists as an unchanged prefix, and extends
\* exactly its own list by exactly one entry
C12_AppendOnly ==
    [][call'.op \in StoreMutators =>
          LET before == ListsOf(style_guide_manager.style_guide)
              after == ListsOf(style_guide_manager'.style_guide)
          IN \A l \in 1..3 :
                /\ IsPrefix(before[l], after[l])
                /\ Len(after[l]) = Len(before[l]) + (IF l = ListOf(call'.op) THEN 1 ELSE 0)]_vars

\* feedback recorded after an approval and a rejection, all three lists holding an entry
C12_Witness ==
    /\ call.op = "add_feedback"
    /\ Len(style_guide_manager.style_guide.feedback_log) = 1
    /\ Len(style_guide_manager.style_guide.approved_examples) = 1
    /\ Len(style_guide_manager.style_guide.rejected_examples) = 1

\* the write of the last call went through
Written == \A i \in 1..Len(requests) : requests[i].response.kind = "ok"

\* the feedback log a reload from the file gives now
ReloadedLog == load_style_guide(style_guide_file).feedback_log

LastEntry ==
    LET list == ListsOf(style_guide_manager.style_guide)[ListOf(call.op)]
    IN list[Len(list)]

\* C14: when the write of the file fails during record_feedback, approve or reject, the
\* new entry stays in memory and the failure reaches the caller, as an exception or in
\* what the call returns
C14_WriteFailureIsSurfaced ==
    (call.op \in StoreMutators /\ ~Written) =>
        /\ LastEntry.timestamp = call.timestamp
        /\ LastEntry.content_type = call.args.content_type
        /\ result.status = "raised" \/ result.value # None

\* the words and categories the guideline tables are asked about
AskedWords == {"Quiet", "quiet", "Silent", "Site", "Professional", "Honda"}
AskedCategories == {"Generators", "Access Equipment", ""}

-----------------------------------------------------------------------------
(* Properties of the Feature Extractor *)

\* a call of either variant of the Feature Extractor has returned its features
Extracted ==
    /\ pc = "done"
    /\ call.op \in {"_extract_genuine_features", "_extract_and_enhance_key_features"}
    /\ result.status = "returned"

\* the ten fluff words
FluffWords ==
    {"ideal", "perfect", "exceptional", "amazing", "best", "revolutionary", "cutting-edge",
     "world-class", "premium", "ultimate"}

\* C16: no feature that the Feature Extractor returns contains, case-insensitively, any of
\* the ten fluff words, whichever source it came from
C16_NoFluffInFeatures ==
    Extracted => \A i \in 1..Len(result.value) : ~AnyIn(FluffWords, result.value[i])

\* one text is a case-insensitive substring of the other
Duplicates(a, b) ==
    \/ Contains(LowerText(StripText(a)), LowerText(StripText(b)))
    \/ Contains(LowerText(StripText(b)), LowerText(StripText(a)))

\* the candidates of the last call, in the order the extractor saw them
CandidatesOfCall ==
    IF call.op = "_extract_genuine_features"
    THEN genuine_feature_candidates(call.product, call.manufacturer_info)
    ELSE enhanced_feature_candidates(call.product, call.manufacturer_info)

\* no two of the returned features are such that one is a case-insensitive substring of
\* the other, and a candidate (of more than 10 characters) that duplicates no earlier
\* candidate is kept, as long as the list is not cut at its cap
DeduplicatedResult ==
    /\ \A i, j \in 1..Len(result.value) :
           i # j => ~Duplicates(result.value[i], result.value[j])
    /\ Len(result.value) < 5 =>
           \A i \in 1..Len(CandidatesOfCall) :
               /\ Len(CandidatesOfCall[i]) > 10
               /\ \A j \in 1..(i - 1) : ~Duplicates(CandidatesOfCall[j], CandidatesOfCall[i])
               => \E k \in 1..Len(result.value) :
                      result.value[k] = StripText(CandidatesOfCall[i])

\* C17: in the list returned by the Feature Extractor no two features are such that one
\* is a case-insensitive substring of the other, and the first-seen candidate of each
\* group of duplicates is the one kept
C17_Deduplicated == Extracted => DeduplicatedResult

\* the same of the variant that returns at most 5 features only
GenuineFeaturesDeduplicated ==
    Extracted /\ call.op = "_extract_genuine_features" => DeduplicatedResult

\* a description item that a later category feature and a later manufacturer feature
\* duplicate in other letter case was kept by the 5-feature variant, and the later ones
\* were dropped
GenuineDuplicatesDropped ==
    /\ Extracted
    /\ call.op = "_extract_genuine_features"
    /\ result.value[1] = "Automatic voltage regulation (AVR)"
    /\ \E i \in 1..Len(CandidatesOfCall) : CandidatesOfCall[i] = "Automatic voltage regulation"
    /\ \A k \in 1..Len(result.value) : result.value[k] # "Automatic voltage regulation"

\* the candidate sequence as C18 orders it: description items, allow-listed technical
\* specs (at most 3), researched features, category features with the power-type feature
\* last, with every candidate that holds a fluff word filtered out
ClaimedCandidates ==
    LET product == call.product
        items == SelectSeq([i \in 1..Len(product.description.items) |->
                               StripText(product.description.items[i])],
                           LAMBDA text : Len(text) > 10)
        allowed == {"power", "voltage", "weight", "capacity", "dimensions", "motor",
                    "engine", "fuel tank", "cutting width", "platform height"}
        pairs == SelectSeq(product.technical_specs,
                           LAMBDA kv : kv[2] # "" /\ LowerText(kv[1]) \in allowed)
        specs == [i \in 1..Len(pairs) |->
                     TitleText(pairs[i][1], FALSE) \o ": " \o pairs[i][2]]
        researched == Get(call.manufacturer_info, "features", <<>>)
        canned == get_practical_category_features(product.category, product)
    IN SelectSeq(items \o Take(specs, 3) \o researched \o canned,
                 LAMBDA text : ~AnyIn(FluffWords, text))

\* C18: the Feature Extractor returns at most 5 features, and they are the first (up to
\* 5) of the filtered and deduplicated candidates in source-priority order
C18_FirstFiveOfCandidates ==
    Extracted /\ call.op = "_extract_genuine_features" =>
        /\ Len(result.value) <= 5
        /\ result.value = Take(Deduplicate(ClaimedCandidates, 1, <<>>), 5)

-----------------------------------------------------------------------------
(* Properties of the technical specifications and the category helpers *)

\* the entries of a table, whatever their order
EntriesOf(table) == {table[i] : i \in 1..Len(table)}

\* C19: a call of a technical-spec operation leaves the objects it was given as they
\* were, and a second call on the same objects returns a table with the same keys and
\* the same values as the first, so that no placeholder of the first call accumulates
C19_AssemblyIdempotent ==
    pc = "done" /\ call.op \in TechSpecOps =>
        /\ call.held = call.args
        /\ call.earlier # <<>> =>
               /\ EntriesOf(result.value) = EntriesOf(call.earlier[1])
               /\ Len(result.value) = Len(call.earlier[1])

\* _generate_technical_specs was called twice on style patterns with more than 10 common
\* fields, of which some have no entry: the table holds placeholders for those among the
\* first 10, and none for the eleventh
C19_Witness ==
    /\ pc = "done"
    /\ call.op = "_generate_technical_specs"
    /\ call.earlier # <<>>
    /\ <<"Weight", "Specification available on request">> \in EntriesOf(result.value)
    /\ <<"Voltage", "Specification available on request">> \in EntriesOf(result.value)
    /\ \A entry \in EntriesOf(result.value) : entry[1] # "Warranty"

\* _compile_technical_specifications was called twice on a product with essential
\* specifications and researched specifications
CompiledTwice ==
    /\ pc = "done"
    /\ call.op = "_compile_technical_specifications"
    /\ call.earlier # <<>>
    /\ <<"Power Type", "Petrol">> \in EntriesOf(result.value)
    /\ <<"Output Type", "Clean AC power">> \in EntriesOf(result.value)
    /\ <<"Rated Output", "1600W">> \in EntriesOf(result.value)
    /\ <<"Weight", "21kg">> \in EntriesOf(result.value)
    /\ \A entry \in EntriesOf(result.value) : entry[1] # "Noise Level"

\* the category of the last helper call is a key of none of that helper's tables
CategoryNotListed ==
    \/ call.category.type # "str"
    \/ call.category.value \notin
           CASE call.op = "_infer_type_from_category" ->
                    {"Access Equipment", "Air Compressors & Tools", "Breaking & Drilling",
                     "Cleaning Equipment", "Compaction Equipment", "Concrete Equipment",
                     "Cutting & Grinding", "Dehumidifiers", "Electrical Equipment",
                     "Fans & Ventilation", "Floor Care", "Garden Equipment", "Generators",
                     "Hand Tools", "Heating", "Lifting Equipment", "Lighting", "Power Tools",
                     "Pumps", "Safety Equipment", "Site Equipment", "Temporary Structures",
                     "Testing Equipment", "Waste Management", "Welding Equipment"}
             [] call.op = "_get_category_essential_specs" ->
                    {"Breaking & Drilling", "Access Equipment", "Garden Equipment",
                     "Generators"}
             [] OTHER ->
                    {"Access Equipment", "Breaking & Drilling", "Cleaning Equipment",
                     "Generators", "Garden Equipment"}

\* the record's own brand, model and power type, for the cells that hold something
OwnEntries ==
    {<<"Brand", call.product.brand>> : x \in IF CellTruthy(call.product.brand)
                                                  THEN {1} ELSE {}}
    \cup {<<"Model", call.product.model>> : x \in IF CellTruthy(call.product.model)
                                                  THEN {1} ELSE {}}
    \cup {<<"Power Type", call.product.power_type>> :
             x \in IF CellTruthy(call.product.power_type) THEN {1} ELSE {}}

\* C20: asked about a category that is in none of its tables, a category helper returns
\* its generic fallback and does not raise: the generic 4 benefits, the generic 4
\* applications, the type "Equipment", and as essential specs only the record's own
\* brand, model and power type
C20_GenericFallback ==
    /\ pc = "done"
    /\ call.op \in {"_infer_type_from_category", "_get_category_benefits",
                    "_get_category_applications", "_get_category_essential_specs"}
    /\ CategoryNotListed
    => /\ result.status = "returned"
       /\ call.op = "_infer_type_from_category" => result.value = "Equipment"
       /\ call.op = "_get_category_benefits" =>
              result.value = <<"professional performance and reliability",
                               "efficient operation for demanding applications",
                               "superior results for your projects",
                               "trusted performance by professionals">>
       /\ call.op = "_get_category_applications" =>
              result.value = <<"professional applications", "commercial projects",
                               "maintenance work", "construction tasks">>
       /\ call.op = "_get_category_essential_specs" =>
              /\ EntriesOf(result.value) = OwnEntries
              /\ Len(result.value) = Cardinality(OwnEntries)

\* the essential specs of a record with a brand, a power type and no model, in a
\* category that has no essential-specs branch
C20_Witness ==
    /\ pc = "done"
    /\ call.op = "_get_category_essential_specs"
    /\ call.category = Str("Power Tools")
    /\ call.product.model = Str("")
    /\ result.status = "returned"
    /\ result.value = << <<"Brand", Str("Honda")>>, <<"Power Type", Str("Petrol")>> >>

\* the benefits of a category that only the type table lists
UnlistedBenefits ==
    /\ pc = "done"
    /\ call.op = "_get_category_benefits"
    /\ call.category = Str("Power Tools")
    /\ result.status = "returned"
    /\ Len(result.value) = 4

-----------------------------------------------------------------------------
(* Properties of two instances on one file *)

\* the entries that a reader of the persisted document finds in one of its three lists;
\* none when there is no document or the file holds no JSON
PersistedEntries(file, list) ==
    IF file.state \in {"document", "unreadable"}
    THEN {LoadDocument(file.document)[list][i] :
             i \in 1..Len(LoadDocument(file.document)[list])}
    ELSE {}

\* C21: with two instances on one file, the persisted document holds every entry that
\* either instance has recorded (an instance's lists hold all it has recorded, as they
\* only grow)
C21_NoLostUpdate ==
    \A manager \in {style_guide_manager, session_manager},
       list \in {"feedback_log", "approved_examples", "rejected_examples"} :
        style_guide_file.state = "document" =>
            \A i \in 1..Len(manager.style_guide[list]) :
                manager.style_guide[list][i] \in PersistedEntries(style_guide_file, list)

\* C22: a mutating call on a store that runs on the default guide after a failed load
\* leaves the entries that were persisted before in the persisted document
C22_FailedLoadKeepsPersisted ==
    [][style_guide_file.state = "unreadable" /\ style_guide_file' # style_guide_file
       => \A list \in {"feedback_log", "approved_examples", "rejected_examples"} :
              PersistedEntries(style_guide_file, list)
                  \subseteq PersistedEntries(style_guide_file', list)]_vars

-----------------------------------------------------------------------------
(* The pattern analysis on its own *)

\* the longest list of records that is analysed
MaxRecords == 3

\* catalog records as analyze_style_patterns reads them: a description of 3 sentences,
\* a second one that starts alike, an empty one, an empty cell (NaN), one of exactly 10
\* characters and one of 9 characters between spaces
PatternRecords ==
    {[title |-> <<"Honda", "Generator">>,
      description |-> Text(<<[lead |-> 0, words |-> <<"Compact", "petrol", "generator">>],
                             [lead |-> 1, words |-> <<"Electric", "start">>],
                             [lead |-> 0, words |-> <<>>]>>),
      technical_specs |-> << <<"Power", "1600W">>, <<"Weight", "21kg">> >>,
      manufacturer_website |-> "https://www.honda.co.uk"],
     [title |-> <<"Hyundai", "Generator">>,
      description |-> Text(<<[lead |-> 0, words |-> <<"Compact", "petrol", "generator">>],
                             [lead |-> 1, words |-> <<"Electric", "start">>],
                             [lead |-> 1, words |-> <<"Fuel", "gauge">>]>>),
      technical_specs |-> << <<"Power", "2200W">> >>,
      manufacturer_website |-> ""],
     [title |-> <<"Honda", "Generator", "Super", "Silent">>,
      description |-> Text(<<[lead |-> 0, words |-> <<>>]>>),
      technical_specs |-> << <<"Noise", "52dB">>, <<"Weight", "21kg">> >>,
      manufacturer_website |-> ""],
     [title |-> <<"Honda", "Inverter">>,
      description |-> NaN,
      technical_specs |-> << <<"Noise", "58dB">> >>,
      manufacturer_website |-> ""],
     [title |-> <<"Makita", "Drill">>,
      description |-> Text(<<[lead |-> 0, words |-> <<"site", "power">>]>>),
      technical_specs |-> <<>>,
      manufacturer_website |-> ""],
     [title |-> <<>>,
      description |-> Text(<<[lead |-> 2, words |-> <<"hire", "now">>],
                             [lead |-> 1, words |-> <<>>]>>),
      technical_specs |-> <<>>,
      manufacturer_website |-> ""]}

\* a caller invokes analyze_style_patterns on a list of records
AnalyzeStylePatterns(products) ==
    /\ pc = "idle"
    /\ result' = [status |-> "returned", value |-> analyze_style_patterns(products)]
    /\ pc' = "done"
    /\ call' = [op |-> "analyze_style_patterns", products |-> products]
    /\ UNCHANGED <<excel_handler, style_guide_manager, style_guide_file, session_manager, memory,
                   product_data, manufacturer_cache, requests, analysis, returned>>
    /\ UNCHANGED confVars

NextPatterns ==
    \/ \E n \in 0..MaxRecords : \E products \in [1..n -> PatternRecords] :
           AnalyzeStylePatterns(products)
    \/ ReturnToCaller

SpecPatterns == InitResearch /\ [][NextPatterns]_vars

-----------------------------------------------------------------------------
(* Properties of the pattern analysis *)

Analysed == pc = "done" /\ call.op = "analyze_style_patterns"

\* the records C28 calls valid: the description is text of 10 or more characters after
\* trimming
WithValidDescription(products) ==
    SelectSeq(products, LAMBDA p : /\ IsStr(p.description)
                                   /\ TextLen(p.description) > 0
                                   /\ StrippedLen(p.description) >= 10)

\* C28: the statistics of the StylePattern are those of the records with a valid
\* description alone (title words and title length, sentence starters and description
\* length, spec-field frequencies), and they are 0 or empty when no record is valid
C28_OnlyValidRecordsCount ==
    Analysed =>
        LET valid == WithValidDescription(call.products)
            with_title == SelectSeq(valid, LAMBDA p : p.title # <<>>)
            titles == analyze_title_patterns([i \in 1..Len(with_title) |->
                                                 with_title[i].title])
            descriptions == [i \in 1..Len(valid) |-> valid[i].description]
            starters == Flatten([i \in 1..Len(valid) |-> StartersOf(valid[i].description)])
            with_specs == SelectSeq(valid, LAMBDA p : p.technical_specs # <<>>)
            fields == analyze_technical_patterns([i \in 1..Len(with_specs) |->
                                                     with_specs[i].technical_specs])
            found == result.value
        IN /\ Get(found.title_patterns, "common_words", <<>>) = titles.common_words
           /\ Get(found.title_patterns, "average_length", 0) = titles.average_length
           /\ Get(found.description_patterns, "sentence_starters", <<>>)
                  = Take(SelectSeq(SortedByCount(starters),
                                   LAMBDA st : Count(st, starters) > 1), StartersCap)
           /\ found.avg_description_length
                  = (IF valid = <<>> THEN 0
                     ELSE SumWordCounts(descriptions) \div Len(valid))
           /\ Get(found.technical_spec_patterns, "common_fields", <<>>) = fields.common_fields
           /\ Get(found.technical_spec_patterns, "field_frequency", EmptyDict)
                  = fields.field_frequency

\* the description statistics alone count just the records whose trimmed description is
\* longer than 10 characters
DescriptionStatisticsOfLongOnes ==
    Analysed =>
        LET long == SelectSeq(WithValidDescription(call.products),
                              LAMBDA p : StrippedLen(p.description) > 10)
            descriptions == [i \in 1..Len(long) |-> long[i].description]
            starters == Flatten([i \in 1..Len(long) |-> StartersOf(long[i].description)])
        IN /\ Get(result.value.description_patterns, "sentence_starters", <<>>)
                  = Take(SelectSeq(SortedByCount(starters),
                                   LAMBDA st : Count(st, starters) > 1), StartersCap)
           /\ result.value.avg_description_length
                  = (IF long = <<>> THEN 0 ELSE SumWordCounts(descriptions) \div Len(long))

\* an empty list of records gives zero lengths and empty collections
EmptyListGivesEmptyPattern ==
    (Analysed /\ call.products = <<>>) =>
        /\ result.value.title_patterns = EmptyDict
        /\ result.value.description_patterns = EmptyDict
        /\ result.value.technical_spec_patterns = EmptyDict
        /\ result.value.avg_description_length = 0

-----------------------------------------------------------------------------
(* The memory system on its own *)

\* the store calls of one run, and the uses marked on one piece of content
MaxStored == 2

\* the files at construction: new and empty, or holding as many entries as each log
\* keeps, stored with ids 1 to 1000
MemoryStartStates ==
    {NoMemory,
     [conversations |-> [i \in 1..ConversationsKept |->
                            [id |-> i, timestamp |-> "2024-12-31T09:00:00",
                             user_input |-> "hello", agent_response |-> "hi",
                             context |-> EmptyDict, date |-> "2024-12-31"]],
      campaigns |-> <<>>,
      content_history |-> [i \in 1..ContentKept |->
                              [id |-> i, timestamp |-> "2024-12-31T09:00:00",
                               content_type |-> "eshot", content |-> "Winter offer",
                               metadata |-> EmptyDict, used_count |-> 0,
                               last_used |-> None]],
      insights |-> [i \in 1..InsightsKept |->
                       [id |-> i, timestamp |-> "2024-12-31T09:00:00", type |-> "weather",
                        data |-> EmptyDict, source |-> "system", confidence |-> 50]],
      ids |-> ConversationsKept]}

InitMemory ==
    /\ excel_handler = TRUE
    /\ style_guide_manager = [available |-> FALSE, style_guide |-> DefaultStyleGuide]
    /\ style_guide_file = MissingFile
    /\ session_manager = [available |-> FALSE, style_guide |-> DefaultStyleGuide]
    /\ memory \in MemoryStartStates
    /\ product_data = [loaded |-> FALSE, rows |-> <<>>]
    /\ manufacturer_cache = EmptyDict
    /\ pc = "idle"
    /\ call = NoCall
    /\ result = NoResult
    /\ requests = <<>>
    /\ analysis = NoAnalysis(<<>>)
    /\ returned = EmptyDict
    /\ similar_count = 0
    /\ title_state = "absent"
    /\ desc_state = "absent"
    /\ spec_state = "absent"
    /\ confidence = -1
    /\ style_confidence = -1

\* the ids given out since construction
StoredSoFar == memory.ids % ConversationsKept

\* a call of a MemorySystem operation runs to its end
MemoryCall(op, args, done) ==
    /\ pc = "idle"
    /\ pc' = "done"
    /\ call' = [op |-> op, args |-> args]
    /\ result' = [status |-> "returned", value |-> done.value]
    /\ memory' = done.memory
    /\ UNCHANGED <<excel_handler, style_guide_manager, style_guide_file, session_manager,
                   product_data, manufacturer_cache, requests, analysis, returned>>
    /\ UNCHANGED confVars

StoreConversation(now, user_input, agent_response) ==
    /\ StoredSoFar < MaxStored
    /\ MemoryCall("store_conversation", <<user_input, agent_response>>,
                  store_conversation(memory, now, user_input, agent_response, EmptyDict))

StoreCampaign(now, campaign_data) ==
    /\ StoredSoFar < MaxStored
    /\ MemoryCall("store_campaign", <<campaign_data>>,
                  store_campaign(memory, now, campaign_data))

StoreGeneratedContent(now, content_type, content) ==
    /\ StoredSoFar < MaxStored
    /\ MemoryCall("store_generated_content", <<content_type, content>>,
                  store_generated_content(memory, now, content_type, content, EmptyDict))

StoreInsight(now, insight_type, insight_data) ==
    /\ StoredSoFar < MaxStored
    /\ MemoryCall("store_insight", <<insight_type, insight_data>>,
                  store_insight(memory, now, insight_type, insight_data))

UpdateCampaignPerformance(now, campaign_id, performance_data) ==
    MemoryCall("update_campaign_performance", <<campaign_id, performance_data>>,
               update_campaign_performance(memory, now, campaign_id, performance_data))

MarkContentAsUsed(now, content_id) ==
    /\ {i \in 1..Len(memory.content_history) :
            /\ memory.content_history[i].id = content_id
            /\ memory.content_history[i].used_count >= MaxStored} = {}
    /\ MemoryCall("mark_content_as_used", <<content_id>>,
                  mark_content_as_used(memory, now, content_id))

\* the ids a caller passes: one of the ids given out in this run, or one never given out
KnownIds == {memory.ids - k : k \in 0..(MaxStored - 1)} \cup {0}

NextMemory ==
    \/ \E now \in {"2025-01-01T10:00:00"} :
           \/ StoreConversation(now, "Plan a weather eshot", "Here is a draft")
           \/ \E campaign_data \in {EmptyDict, [status |-> "active", type |-> "weather"]} :
                  StoreCampaign(now, campaign_data)
           \/ StoreGeneratedContent(now, "social_post", "Heaters in stock")
           \/ StoreInsight(now, "seasonal", [source |-> "user", confidence |-> 80])
           \/ \E campaign_id \in KnownIds :
                  UpdateCampaignPerformance(now, campaign_id, << <<"opens", 120>> >>)
           \/ \E content_id \in KnownIds : MarkContentAsUsed(now, content_id)
    \/ ReturnToCaller

SpecMemory == InitMemory /\ [][NextMemory]_vars

-----------------------------------------------------------------------------
(* Properties of the memory system *)

\* every entry of `before` is in `after`, as it was and in the same order, with later
\* entries only behind it
KeptAsStored(before, after) ==
    /\ Len(before) <= Len(after)
    /\ \A i \in 1..Len(before) : after[i] = before[i]

\* C29: the four logs are append-only: whatever the call, each log afterwards begins
\* with the entries it held before, unmodified and in insertion order
C29_LogsAppendOnly ==
    [][/\ KeptAsStored(memory.conversations, memory'.conversations)
       /\ KeptAsStored(memory.campaigns, memory'.campaigns)
       /\ KeptAsStored(memory.content_history, memory'.content_history)
       /\ KeptAsStored(memory.insights, memory'.insights)]_vars

\* the same for logs that are not full and calls that store: a store call on a log
\* below its cap keeps what the log held
StoreBelowCapAppends ==
    [][(/\ call'.op \in {"store_conversation", "store_campaign", "store_generated_content",
                         "store_insight"}
        /\ Len(memory.conversations) < ConversationsKept)
       => /\ KeptAsStored(memory.conversations, memory'.conversations)
          /\ KeptAsStored(memory.campaigns, memory'.campaigns)
          /\ KeptAsStored(memory.content_history, memory'.content_history)
          /\ KeptAsStored(memory.insights, memory'.insights)]_vars

-----------------------------------------------------------------------------
(* ContentGenerator: campaign and social media templates *)

\* a template text is the sequence of its literal pieces and its {fields}; the emoji of
\* the source texts are left out
Field(name) == [field |-> name]
Lit(text) == [text |-> text]

\* ContentGenerator._load_campaign_templates
campaign_templates ==
    <<[type |-> "weather", urgency |-> "high",
       content |-> <<Lit("WEATHER ALERT\n\n"), Field("weather_context"),
                     Lit("\n\nDon't let the weather catch you unprepared! We have the equipment you need:\n\n"),
                     Field("products_list"), Lit("\n\n"), Field("urgency_phrase"), Lit("\n\n"),
                     Field("call_to_action")>>,
       cta |-> "Call us now for immediate availability!"],
      [type |-> "promotional", urgency |-> "medium",
       content |-> <<Lit("SPECIAL OFFER - Equipment Hire\n\nTake advantage of our latest promotions on quality equipment hire:\n\n"),
                     Field("products_list"), Lit("\n\n"), Field("urgency_phrase"), Lit("\n\n"),
                     Field("call_to_action")>>,
       cta |-> "Contact us today to secure your equipment!"],
      [type |-> "seasonal", urgency |-> "low",
       content |-> <<Lit("Seasonal Equipment Solutions\n\nAs the season changes, make sure you have the right equipment for your projects:\n\n"),
                     Field("products_list"),
                     Lit("\n\nOur experienced team is ready to help you choose the perfect equipment for your needs.\n\n"),
                     Field("call_to_action")>>,
       cta |-> "Get in touch for expert advice and competitive rates!"]>>

\* ContentGenerator._load_social_templates
social_templates ==
    <<[platform |-> "linkedin", type |-> "product_showcase",
       content |-> <<Lit("Professional Equipment Hire in London\n\n"), Field("products"),
                     Lit(" - delivering reliable solutions for your projects.\n\n"),
                     Field("weather_context"),
                     Lit("\n\nCompetitive rates\nExpert advice included\nSame-day availability\nDelivery across London")>>,
       cta |-> "Get in touch today!", emoji |-> "wrench"],
      [platform |-> "facebook", type |-> "promotional",
       content |-> <<Lit("Amazing deals on equipment hire!\n\n"), Field("products"),
                     Lit(" - perfect for your next project.\n\n"), Field("weather_context"),
                     Lit("\n\nWhy choose us? Because we care about your success!")>>,
       cta |-> "Message us for instant quotes!", emoji |-> "party"],
      [platform |-> "linkedin", type |-> "weather_alert",
       content |-> <<Lit("Weather Update for London\n\n"), Field("weather_context"),
                     Lit("\n\nStay prepared with our "), Field("products"),
                     Lit(":\n\nBe ready, not reactive! Our team is standing by to help.")>>,
       cta |-> "Contact us for immediate equipment availability!", emoji |-> "rain"]>>

\* template.get(key): Str(value), or None when the template has no such key
TemplateGet(template, key) ==
    IF key \in DOMAIN template THEN Str(template[key]) ELSE None

\* the first template that passes the test, as a list of at most one
FirstThat(templates, Test(_)) == Take(SelectSeq(templates, Test), 1)

\* ContentGenerator._select_template
select_template(templates, category, tone) ==
    LET exact == FirstThat(templates,
                           LAMBDA t : /\ TemplateGet(t, "category") = Str(category)
                                      /\ TemplateGet(t, "tone") = Str(tone))
        by_category == FirstThat(templates,
                                 LAMBDA t : TemplateGet(t, "category") = Str(category))
        general == FirstThat(templates, LAMBDA t : TemplateGet(t, "category") = Str("general"))
    IN IF exact # <<>> THEN exact[1]
       ELSE IF by_category # <<>> THEN by_category[1]
       ELSE IF general # <<>> THEN general[1]
       ELSE IF templates # <<>> THEN templates[1] ELSE EmptyDict

RECURSIVE FormatText(_, _)
\* content.format(**values)
FormatText(content, values) ==
    IF content = <<>> THEN ""
    ELSE (IF "field" \in DOMAIN content[1] THEN values[content[1].field]
          ELSE content[1].text)
         \o FormatText(Tail(content), values)

\* ContentGenerator._format_products_list, without its bullet characters
format_products_list(products) ==
    IF products = <<>> THEN "Quality equipment available" ELSE Join(products, "\n")

\* ContentGenerator._format_products_for_social
format_products_for_social(products) ==
    IF products = <<>> THEN "Quality equipment"
    ELSE IF Len(products) = 1 THEN products[1]
    ELSE IF Len(products) = 2 THEN products[1] \o " and " \o products[2]
    ELSE Join(SubSeq(products, 1, Len(products) - 1), ", ") \o ", and "
         \o products[Len(products)]

\* ContentGenerator._get_urgency_phrase
get_urgency_phrase(urgency) ==
    CASE urgency = "high" -> "Act now - limited availability!"
      [] urgency = "low" -> "Contact us when you're ready."
      [] OTHER -> "Don't miss out on this opportunity!"

\* the prefixes _generate_subject_line chooses from with random.choice
urgency_prefixes(urgency) ==
    CASE urgency = "high" -> {"URGENT:", "ALERT:", "IMMEDIATE:"}
      [] urgency = "medium" -> {"OFFER:", "SPECIAL:", "NOTICE:"}
      [] urgency = "low" -> {"UPDATE:", "INFO:", ""}
      [] OTHER -> {""}

\* ContentGenerator._generate_subject_line with the prefix that random.choice gave
generate_subject_line(products, campaign_type, urgency, prefix) ==
    LET products_text == IF products # <<>> THEN products[1] ELSE "Quality Equipment"
    IN StripText(CASE campaign_type = "weather" ->
                          prefix \o " Weather Alert - " \o products_text \o " Available Now"
                   [] campaign_type = "promotional" ->
                          prefix \o " Special Offer on " \o products_text
                   [] campaign_type = "seasonal" ->
                          prefix \o " Seasonal Equipment - " \o products_text
                   [] OTHER -> prefix \o " " \o products_text \o " - Equipment Hire")

\* ContentGenerator.generate_eshot_campaign
generate_eshot_campaign(campaign_info, prefix) ==
    LET products == Get(campaign_info, "products", <<>>)
        campaign_type == Get(campaign_info, "type", "promotional")
        weather_context == Get(campaign_info, "weather_context", "")
        urgency == Get(campaign_info, "urgency", "medium")
        template == select_template(campaign_templates, campaign_type, urgency)
    IN [subject_line |-> generate_subject_line(products, campaign_type, urgency, prefix),
        content |-> FormatText(template.content,
                               [products_list |-> format_products_list(products),
                                weather_context |-> weather_context,
                                call_to_action |-> template.cta,
                                urgency_phrase |-> get_urgency_phrase(urgency)]),
        footer |-> "Professional Equipment Hire",
        campaign_type |-> campaign_type,
        generated_at |-> "now"]

\* ContentGenerator.generate_social_media_post
generate_social_media_post(post_info) ==
    LET platform == Get(post_info, "platform", "linkedin")
        post_type == Get(post_info, "type", "product_showcase")
        products == Get(post_info, "products", <<>>)
        hashtags == Get(post_info, "hashtags", <<>>)
        weather_context == Get(post_info, "weather_context", "")
        template == select_template(social_templates, platform, post_type)
        main_content == FormatText(template.content,
                                   [products |-> format_products_for_social(products),
                                    weather_context |-> weather_context,
                                    emoji |-> Get(template, "emoji", "wrench")])
        hashtag_text == Join([i \in 1..Len(hashtags) |-> "#" \o hashtags[i]], " ")
        full_post == main_content \o "\n\n" \o Get(template, "cta", "Get in touch today!")
                     \o "\n\n" \o hashtag_text
    IN [content |-> full_post,
        platform |-> platform,
        post_type |-> post_type,
        character_count |-> Len(full_post),
        generated_at |-> "now"]

-----------------------------------------------------------------------------
(* The content generator on its own *)

\* what a caller asks for: every campaign type and one that has no template, with and
\* without urgency, products and weather context
CampaignInfos ==
    {[k \in keys |-> all[k]] :
        keys \in SUBSET {"type", "urgency", "products", "weather_context"},
        all \in [type : {"weather", "promotional", "seasonal", "event"},
                 urgency : {"high", "low"},
                 products : {<<"Generators", "Heaters">>},
                 weather_context : {"Storm warning for Friday."}]}
PostInfos ==
    {[k \in keys |-> all[k]] :
        keys \in SUBSET {"platform", "type", "products", "hashtags"},
        all \in [platform : {"linkedin", "facebook", "twitter"},
                 type : {"product_showcase", "promotional", "weather_alert"},
                 products : {<<"Generators">>},
                 hashtags : {<<"hire", "london">>}]}

\* a caller invokes generate_eshot_campaign; random.choice gives one of the prefixes
GenerateEshotCampaign(campaign_info) ==
    /\ pc = "idle"
    /\ \E prefix \in urgency_prefixes(Get(campaign_info, "urgency", "medium")) :
           result' = [status |-> "returned",
                      value |-> generate_eshot_campaign(campaign_info, prefix)]
    /\ pc' = "done"
    /\ call' = [op |-> "generate_eshot_campaign", campaign_info |-> campaign_info]
    /\ UNCHANGED <<excel_handler, style_guide_manager, style_guide_file, session_manager,
                   memory, product_data, manufacturer_cache, requests, analysis, returned>>
    /\ UNCHANGED confVars

\* a caller invokes generate_social_media_post
GenerateSocialMediaPost(post_info) ==
    /\ pc = "idle"
    /\ result' = [status |-> "returned", value |-> generate_social_media_post(post_info)]
    /\ pc' = "done"
    /\ call' = [op |-> "generate_social_media_post", post_info |-> post_info]
    /\ UNCHANGED <<excel_handler, style_guide_manager, style_guide_file, session_manager,
                   memory, product_data, manufacturer_cache, requests, analysis, returned>>
    /\ UNCHANGED confVars

NextContent ==
    \/ \E campaign_info \in CampaignInfos : GenerateEshotCampaign(campaign_info)
    \/ \E post_info \in PostInfos : GenerateSocialMediaPost(post_info)
    \/ ReturnToCaller

SpecContent == InitResearch /\ [][NextContent]_vars

-----------------------------------------------------------------------------
(* Properties of the content generator *)

\* the templates that match a request: the campaign templates of the requested type,
\* the social templates of the requested platform and post type
MatchingCampaignTemplates ==
    SelectSeq(campaign_templates,
              LAMBDA t : t.type = Get(call.campaign_info, "type", "promotional"))
MatchingSocialTemplates ==
    SelectSeq(social_templates,
              LAMBDA t : /\ t.platform = Get(call.post_info, "platform", "linkedin")
                         /\ t.type = Get(call.post_info, "type", "product_showcase"))

\* C30: a campaign is written from the template of the requested campaign type and a
\* post from the template of the requested platform and post type, whenever there is
\* such a template
C30_MatchingTemplateUsed ==
    /\ (pc = "done" /\ call.op = "generate_eshot_campaign"
            /\ MatchingCampaignTemplates # <<>>) =>
           LET info == call.campaign_info
               template == MatchingCampaignTemplates[1]
           IN result.value.content
                  = FormatText(template.content,
                               [products_list |->
                                    format_products_list(Get(info, "products", <<>>)),
                                weather_context |-> Get(info, "weather_context", ""),
                                call_to_action |-> template.cta,
                                urgency_phrase |->
                                    get_urgency_phrase(Get(info, "urgency", "medium"))])
    /\ (pc = "done" /\ call.op = "generate_social_media_post"
            /\ MatchingSocialTemplates # <<>>) =>
           \E i \in 1..Len(result.value.content) :
               SubSeq(result.value.content, 1, i)
                   = FormatText(MatchingSocialTemplates[1].content,
                                [products |-> format_products_for_social(
                                                  Get(call.post_info, "products", <<>>)),
                                 weather_context |-> "",
                                 emoji |-> MatchingSocialTemplates[1].emoji])

\* a request that no template matches is written from the first template
DefaultIsFirstTemplate ==
    /\ (pc = "done" /\ call.op = "generate_eshot_campaign"
            /\ MatchingCampaignTemplates = <<>>) =>
           \E i \in 1..Len(result.value.content) :
               SubSeq(result.value.content, 1, i) = campaign_templates[1].content[1].text
    /\ (pc = "done" /\ call.op = "generate_social_media_post"
            /\ MatchingSocialTemplates = <<>>) =>
           \E i \in 1..Len(result.value.content) :
               SubSeq(result.value.content, 1, i) = social_templates[1].content[1].text

-----------------------------------------------------------------------------
(* Properties of the title and the opening *)

\* a _generate_title call has returned
Titled == pc = "done" /\ call.op = "_generate_title"

\* the title as C25 assembles it: brand (explicit, else the first common token that is a
\* known brand), model, product type (explicit, else inferred from the category),
\* differentiator with "- ", power type without a prefix; "Professional {category} -
\* {identifier}" when there is no component (also allowed when the inferred type is the
\* only component)
ClaimedTitles ==
    LET info == call.basic_info
        brands == {"Honda", "Stihl", "Makita", "Bosch", "Husqvarna", "DeWalt", "Hilti",
                   "Karcher"}
        known == SelectSeq(call.style_patterns.title_patterns.common_words,
                           LAMBDA word : \E b \in brands : LowerText(b) = LowerText(word))
        brand == IF Get(info, "brand", "") # "" THEN info.brand
                 ELSE IF known # <<>>
                 THEN CHOOSE b \in brands : LowerText(b) = LowerText(known[1])
                 ELSE ""
        product_type == IF Get(info, "type", "") # "" THEN info.type
                        ELSE infer_type_from_category(Str(call.code_analysis.category)).value
        differentiator == IF Get(info, "differentiator", "") # ""
                          THEN "- " \o info.differentiator ELSE ""
        parts == SelectSeq(<<brand, Get(info, "model", ""), product_type, differentiator,
                             Get(info, "power_type", "")>>,
                           LAMBDA part : part # "")
        fallback == "Professional " \o call.code_analysis.category \o " - "
                    \o call.code_analysis.product_identifier
    IN {IF parts # <<>> THEN Join(parts, " ") ELSE fallback}
       \cup (IF parts = <<product_type>> /\ Get(info, "type", "") = "" THEN {fallback}
             ELSE {})

\* C25: the title is the non-empty components in the order brand, model, product type,
\* differentiator with "- ", power type with no prefix of its own, and "Professional
\* {category} - {identifier}" when all are empty
C25_TitleInFixedOrder == Titled => result.value \in ClaimedTitles

\* the sentences of the description of the last _generate_brief_intro call that are
\* usable as C26 defines it: more than 20 and fewer than 150 characters, not starting
\* with markup, without hire or location boilerplate, and containing none of the avoid
\* words of the store
UsableSentences ==
    LET avoid == IF call.self.style_guide_manager.available
                 THEN call.self.style_guide_manager.style_guide.tone_avoid ELSE <<>>
        sentences == [i \in 1..Len(call.existing_desc.parts) |->
                         Join(call.existing_desc.parts[i].words, " ")]
    IN SelectSeq(sentences,
                 LAMBDA sentence :
                     /\ Len(sentence) > 20
                     /\ Len(sentence) < 150
                     /\ SubSeq(sentence, 1, 1) # "<"
                     /\ ~AnyIn({"hire", "london"}, sentence)
                     /\ \A i \in 1..Len(avoid) :
                            ~Contains(LowerText(sentence), LowerText(avoid[i])))

\* C26: the opening is the first usable sentence of the existing description, and it is
\* synthesised from the template only when no sentence is usable; an opening taken from
\* the description therefore contains no avoid word
C26_FirstUsableSentence ==
    (pc = "done" /\ call.op = "_generate_brief_intro" /\ IsStr(call.existing_desc)) =>
        /\ result.status = "returned"
        /\ IF UsableSentences # <<>>
           THEN result.value = UsableSentences[1] \o "."
           ELSE \A i \in 1..Len(call.existing_desc.parts) :
                    result.value # Join(call.existing_desc.parts[i].words, " ") \o "."

\* the table C27 describes for a record: the merged and cleaned entries, then a
\* placeholder for each of the first 10 common fields of the pattern that has no entry
ClaimedTable(product, manufacturer_info, style_patterns) ==
    LET merged == compile_technical_specifications(product, <<>>, manufacturer_info).value
        common_fields == Get(Get(style_patterns, "technical_spec_patterns", EmptyDict),
                             "common_fields", <<>>)
        missing == SelectSeq(Take(common_fields, 10),
                             LAMBDA field : \A i \in 1..Len(merged) : merged[i][1] # field)
    IN EntriesOf(merged) \cup {<<missing[i], "Specification available on request">> :
                                  i \in 1..Len(missing)}

\* the last call assembled the technical table of a record that holds no raw HTML table
TableAssembled ==
    /\ pc = "done"
    /\ call.op = "_generate_wordpress_content"
    /\ result.value.technical_specifications_html.html # "restyled"

\* C27: the technical table of a record holds the record's specs overlaid by the
\* category-essential specs overlaid by the researched specifications, without the empty
\* and "nan" entries, and a placeholder for every common field of the pattern that has
\* no entry
C27_MergedThenToppedUp ==
    TableAssembled =>
        EntriesOf(result.value.technical_specifications_html.rows)
            = ClaimedTable(call.product, call.manufacturer_info, call.style_patterns)

\* the merge and the cleaning of C27 without the top-up: the table holds exactly the
\* entries of the three sources that are not empty, the later source winning
MergedAndCleaned ==
    TableAssembled =>
        LET rows == result.value.technical_specifications_html.rows
            record == SelectSeq(call.product.technical_specs,
                                LAMBDA kv : kv[1] # "Technical Specs Raw")
            essential == get_category_essential_specs(call.product.category, call.product)
            researched == Get(call.manufacturer_info, "specifications", <<>>)
            Last(key) ==
                IF \E i \in 1..Len(researched) : researched[i][1] = key
                THEN (CHOOSE kv \in EntriesOf(researched) : kv[1] = key)[2]
                ELSE IF \E i \in 1..Len(essential) : essential[i][1] = key
                THEN CellText((CHOOSE kv \in EntriesOf(essential) : kv[1] = key)[2])
                ELSE (CHOOSE kv \in EntriesOf(record) :
                          TitleText(kv[1], FALSE) = key)[2]
            keys == {researched[i][1] : i \in 1..Len(researched)}
                    \cup {essential[i][1] : i \in 1..Len(essential)}
                    \cup {TitleText(record[i][1], FALSE) : i \in 1..Len(record)}
        IN EntriesOf(rows) = {<<key, StripText(Last(key))>> :
                                 key \in {k \in keys : StripText(Last(k)) \notin {"", "nan"}}}

====
